---------------------------- MODULE Spec2Model ----------------------------
(***************************************************************************)
(* State-machine model of the open-edition minter                          *)
(* (contracts/minters/open-edition-minter/src/contract.rs).                *)
(*                                                                         *)
(* The durable state is the contract storage (CONFIG, STATUS,              *)
(* MINTER_ADDRS, TOTAL_MINT_COUNT, SG721_ADDRESS and the token index).     *)
(* Every entry point is a function from (storage, environment, request)    *)
(* to a result that carries the working storage at the point of return;    *)
(* the working storage is committed only when the entry point returns Ok.  *)
(***************************************************************************)
EXTENDS Integers, Sequences, FiniteSets, TLC

VARIABLES
    storage,    \* the contract's storage items
    params,     \* the factory's current answer to Sg2QueryMsg::Params
    now,        \* env.block.time
    outbox,     \* the messages of the last request that returned Ok
    issued      \* token ids of the mint messages emitted so far, in order

vars == <<storage, params, now, outbox, issued>>

---------------------------------------------------------------------------
(* Bounds of the model *)

MaxTime == 3
MaxMints == 2

---------------------------------------------------------------------------
(* Identities, denominations and the values requests are drawn from *)

FACTORY == "factory"
ADMIN == "admin"
ALICE == "alice"
COLL == "burn_collection"
PAY == "payment_address"
DEV == "dev_fee_address"
SG_A == "sg721_a"
SG_B == "sg721_b"

NATIVE_DENOM == "ustars"
OTHER_DENOM == "uother"

Senders == {ADMIN, ALICE, COLL}
Recipients == {ALICE, ""}
Times == 1..MaxTime
Amounts == {0, 15, 1000}

coin(amount, denom) == [denom |-> denom, amount |-> amount]

FundsSet ==
    {<<>>} \cup {<<coin(a, NATIVE_DENOM)>> : a \in Amounts \ {0}}
           \cup {<<coin(1000, OTHER_DENOM)>>}

MessageInfo(sender, funds) == [sender |-> sender, funds |-> funds]

(* Option<T>: None is the empty sequence, Some(v) is <<v>> *)
None == <<>>
Some(v) == <<v>>
is_some(o) == o # <<>>
unwrap(o) == o[1]
unwrap_or(o, d) == IF o = <<>> THEN d ELSE o[1]

---------------------------------------------------------------------------
(* The factory's parameters, re-queried by the handlers on every request *)

ParamsA ==
    [mint_fee_bps |-> 1000, airdrop_mint_fee_bps |-> 10000,
     airdrop_mint_price |-> 15, min_mint_price |-> 15,
     max_trading_offset_secs |-> 1, max_per_address_limit |-> 2,
     dev_fee_address |-> DEV]

ParamsB ==
    [mint_fee_bps |-> 20000, airdrop_mint_fee_bps |-> 20000,
     airdrop_mint_price |-> 1000, min_mint_price |-> 0,
     max_trading_offset_secs |-> 0, max_per_address_limit |-> 1,
     dev_fee_address |-> DEV]

ParamSets == {ParamsA, ParamsB}

---------------------------------------------------------------------------
(* Results *)

ContractError(kind) == [kind |-> kind, paid |-> 0, required |-> 0]
IncorrectPaymentAmount(paid, required) ==
    [kind |-> "IncorrectPaymentAmount", paid |-> paid, required |-> required]
NoError == ContractError("Ok")

NoAttrs == [token_id |-> 0, recipient |-> "", network_fee |-> 0,
            mint_price |-> 0, seller_amount |-> 0]

(* What an entry point returns: Ok(Response) or Err(ContractError), with  *)
(* the working storage as it stands when the entry point returns.         *)
Result(err, s, msgs, attrs) ==
    [err |-> err, storage |-> s, msgs |-> msgs, attrs |-> attrs]
Fail(kind, s) == Result(ContractError(kind), s, <<>>, NoAttrs)
Succeed(s, msgs) == Result(NoError, s, msgs, NoAttrs)
is_ok(r) == r.err.kind = "Ok"

---------------------------------------------------------------------------
(* Library calls, modelled by what they do *)

(* cw_utils::may_pay: the amount sent in `denom`; no funds is zero, and   *)
(* anything but exactly one coin of that denomination is an error.        *)
may_pay(info, denom) ==
    IF info.funds = <<>> THEN [err |-> "Ok", amount |-> 0]
    ELSE IF Len(info.funds) = 1 /\ info.funds[1].denom = denom
         THEN [err |-> "Ok", amount |-> info.funds[1].amount]
         ELSE [err |-> "Payment", amount |-> 0]

(* cw_utils::nonpayable: Ok exactly when no funds are attached *)
nonpayable(info) == info.funds = <<>>

(* deps.api.addr_validate *)
addr_validate(a) == a # ""

(* U64Ext::bps_to_decimal followed by Uint128 * Decimal: the product is    *)
(* rounded down.                                                           *)
(* Faulty variant of mul_bps: the product is rounded up *)
mul_bps_rounded_up(amount, bps) == (amount * bps + 9999) \div 10000

mul_bps(amount, bps) == (amount * bps) \div 10000

(* Uint128::checked_sub *)
checked_sub(a, b) ==
    IF b > a THEN [err |-> "Overflow", value |-> 0]
    ELSE [err |-> "Ok", value |-> a - b]

(* burn_to_mint::sender_is_allowed_burn_collection: the caller is one of   *)
(* the allow-listed exchange collections.                                  *)
sender_is_allowed_burn_collection(info, allowed_burn_collections) ==
    /\ is_some(allowed_burn_collections)
    /\ info.sender \in unwrap(allowed_burn_collections)

(* sg1::checked_fair_burn: the network fee instruction to the dev-fee      *)
(* recipient, omitted when the fee is zero.                                *)
checked_fair_burn(info, fee, developer, denom) ==
    IF fee > 0
    THEN <<[kind |-> "send", to |-> developer, amount |-> fee, denom |-> denom]>>
    ELSE <<>>

(* helpers::mint_nft_msg: the item-creation instruction to the collection *)
mint_nft_msg(sg721_address, token_id, recipient_addr) ==
    [kind |-> "mint", contract |-> sg721_address, token_id |-> token_id,
     owner |-> recipient_addr]

(* state::increment_token_index: reads the counter, returns its value and  *)
(* writes back value + 1.                                                  *)
TokenIndexBase == 1

increment_token_index(s) ==
    [storage |-> [s EXCEPT !.TOKEN_INDEX = @ + 1], value |-> s.TOKEN_INDEX]

---------------------------------------------------------------------------
(* Storage helpers *)

map_save(m, k, v) == [a \in DOMAIN m \cup {k} |-> IF a = k THEN v ELSE m[a]]

mint_count_per_addr(s, info) ==
    IF info.sender \in DOMAIN s.MINTER_ADDRS THEN s.MINTER_ADDRS[info.sender]
    ELSE 0

(* Faulty variant of mint_price: the airdrop price is the one the factory *)
(* had at first, not the one it answers with now                         *)
mint_price_airdrop_price_cached(s, p, is_admin) ==
    IF is_admin THEN coin(ParamsA.airdrop_mint_price, s.CONFIG.mint_price.denom)
    ELSE coin(s.CONFIG.mint_price.amount, s.CONFIG.mint_price.denom)

(* if admin: the factory's airdrop price, else the config unit price *)
mint_price(s, p, is_admin) ==
    IF is_admin THEN coin(p.airdrop_mint_price, s.CONFIG.mint_price.denom)
    ELSE coin(s.CONFIG.mint_price.amount, s.CONFIG.mint_price.denom)

---------------------------------------------------------------------------
(* The purchase pipeline *)

(* Faulty variant of pay_mint_if_not_burn_collection: overpayment accepted *)
pay_mint_if_not_burn_collection_at_least(info, mint_price_with_discounts, config_denom, allowed_burn_collections) ==
    IF sender_is_allowed_burn_collection(info, allowed_burn_collections)
    THEN [err |-> NoError, amount |-> 0]
    ELSE LET payment == may_pay(info, config_denom) IN
         IF payment.err # "Ok"
         THEN [err |-> ContractError(payment.err), amount |-> 0]
         ELSE IF payment.amount < mint_price_with_discounts.amount
         THEN [err |-> IncorrectPaymentAmount(payment.amount,
                                              mint_price_with_discounts.amount),
               amount |-> 0]
         ELSE [err |-> NoError, amount |-> payment.amount]

(* Faulty variant of pay_mint_if_not_burn_collection: an allowed burn *)
(* collection has to pay like any other sender                        *)
pay_mint_for_every_sender(info, mint_price_with_discounts, config_denom, allowed_burn_collections) ==
    LET payment == may_pay(info, config_denom) IN
    IF payment.err # "Ok"
    THEN [err |-> ContractError(payment.err), amount |-> 0]
    ELSE IF payment.amount # mint_price_with_discounts.amount
    THEN [err |-> IncorrectPaymentAmount(payment.amount,
                                         mint_price_with_discounts.amount),
          amount |-> 0]
    ELSE [err |-> NoError, amount |-> payment.amount]

pay_mint_if_not_burn_collection(info, mint_price_with_discounts, config_denom, allowed_burn_collections) ==
    IF sender_is_allowed_burn_collection(info, allowed_burn_collections)
    THEN [err |-> NoError, amount |-> 0]
    ELSE LET payment == may_pay(info, config_denom) IN
         IF payment.err # "Ok"
         THEN [err |-> ContractError(payment.err), amount |-> 0]
         ELSE IF payment.amount # mint_price_with_discounts.amount
         THEN [err |-> IncorrectPaymentAmount(payment.amount,
                                              mint_price_with_discounts.amount),
               amount |-> 0]
         ELSE [err |-> NoError, amount |-> payment.amount]

(* Faulty variant of fairburn_if_not_burn_collection: the fee is charged   *)
(* to an allow-listed collection too.                                      *)
fairburn_for_every_sender(info, mint_price_with_discounts, mint_fee_bps, factory_params, allowed_burn_collections) ==
    LET network_fee == mul_bps(mint_price_with_discounts.amount, mint_fee_bps) IN
    IF ~addr_validate(factory_params.dev_fee_address)
    THEN [err |-> ContractError("Std"), msgs |-> <<>>, network_fee |-> 0]
    ELSE [err |-> NoError,
          msgs |-> checked_fair_burn(info, network_fee,
                                     factory_params.dev_fee_address,
                                     mint_price_with_discounts.denom),
          network_fee |-> network_fee]

fairburn_if_not_burn_collection(info, mint_price_with_discounts, mint_fee_bps, factory_params, allowed_burn_collections) ==
    IF sender_is_allowed_burn_collection(info, allowed_burn_collections)
    THEN [err |-> NoError, msgs |-> <<>>, network_fee |-> 0]
    ELSE LET network_fee == mul_bps(mint_price_with_discounts.amount, mint_fee_bps) IN
         IF ~addr_validate(factory_params.dev_fee_address)
         THEN [err |-> ContractError("Std"), msgs |-> <<>>, network_fee |-> 0]
         ELSE [err |-> NoError,
               msgs |-> checked_fair_burn(info, network_fee,
                                          factory_params.dev_fee_address,
                                          mint_price_with_discounts.denom),
               network_fee |-> network_fee]

(* Faulty variant of _compute_seller_amount_if_not_contract_sender: the    *)
(* seller transfer is added whatever its amount.                           *)
_compute_seller_amount_always_sent(info, res, mint_price_with_discounts, network_fee, config, allowed_burn_collections) ==
    IF sender_is_allowed_burn_collection(info, allowed_burn_collections)
    THEN [err |-> NoError, msgs |-> res, seller_amount |-> 0]
    ELSE LET amount == checked_sub(mint_price_with_discounts.amount, network_fee) IN
         IF amount.err # "Ok"
         THEN [err |-> ContractError(amount.err), msgs |-> res, seller_amount |-> 0]
         ELSE [err |-> NoError,
               msgs |-> Append(res,
                            [kind |-> "send",
                             to |-> unwrap_or(config.payment_address, config.admin),
                             amount |-> amount.value,
                             denom |-> mint_price_with_discounts.denom]),
               seller_amount |-> amount.value]

_compute_seller_amount_if_not_contract_sender(info, res, mint_price_with_discounts, network_fee, config, allowed_burn_collections) ==
    IF sender_is_allowed_burn_collection(info, allowed_burn_collections)
    THEN [err |-> NoError, msgs |-> res, seller_amount |-> 0]
    ELSE LET amount == checked_sub(mint_price_with_discounts.amount, network_fee) IN
         IF amount.err # "Ok"
         THEN [err |-> ContractError(amount.err), msgs |-> res, seller_amount |-> 0]
         ELSE [err |-> NoError,
               msgs |-> IF amount.value # 0
                        THEN Append(res,
                                 [kind |-> "send",
                                  to |-> unwrap_or(config.payment_address, config.admin),
                                  amount |-> amount.value,
                                  denom |-> mint_price_with_discounts.denom])
                        ELSE res,
               seller_amount |-> amount.value]

(* Save the new mint count for the sender's address *)
save_new_mint_count(s, info) ==
    [s EXCEPT !.MINTER_ADDRS =
        map_save(@, info.sender, mint_count_per_addr(s, info) + 1)]

(* Faulty variant of update_total_mint_count: the count is not updated *)
update_total_mint_count_skipped(s) == s

(* Update the mint count *)
update_total_mint_count(s) == [s EXCEPT !.TOTAL_MINT_COUNT = @ + 1]

(* Faulty variant of token_id_to_mint: the token id is one above the       *)
(* value increment_token_index returned.                                   *)
token_id_to_mint_one_above(s) ==
    [storage |-> increment_token_index(s).storage,
     value |-> increment_token_index(s).value + 1]

(* Faulty variant of token_id_to_mint: the config counter is not updated *)
token_id_to_mint_counter_kept(s) == [storage |-> s, value |-> s.TOKEN_INDEX]

(* Token ID to mint + update the config counter *)
token_id_to_mint(s) == increment_token_index(s)

recipient_addr_of(info, recipient) == unwrap_or(recipient, info.sender)

(* Faulty variant of mint_fee_of: the ordinary rate on every path *)
mint_fee_of_ordinary_only(factory_params, is_admin) == factory_params.mint_fee_bps

mint_fee_of(factory_params, is_admin) ==
    IF is_admin THEN factory_params.airdrop_mint_fee_bps
    ELSE factory_params.mint_fee_bps

(* Faulty variant of _execute_mint: a missing SG721_ADDRESS is read as an  *)
(* empty address instead of failing the request.                           *)
_execute_mint_unbound_allowed(s, p, info, action, is_admin, recipient) ==
    LET config == s.CONFIG
        sg721_address == unwrap_or(s.SG721_ADDRESS, "")
        recipient_addr == recipient_addr_of(info, recipient)
        mint_price_with_discounts == mint_price(s, p, is_admin)
        config_denom == config.mint_price.denom
        paid == pay_mint_if_not_burn_collection(info, mint_price_with_discounts,
                    config_denom, config.allowed_burn_collections)
    IN
    IF paid.err # NoError THEN Result(paid.err, s, <<>>, NoAttrs)
    ELSE
    LET factory_params == p
        mint_fee == mint_fee_of(factory_params, is_admin)
        burn == fairburn_if_not_burn_collection(info, mint_price_with_discounts,
                    mint_fee, factory_params, config.allowed_burn_collections)
    IN
    IF burn.err # NoError THEN Result(burn.err, s, <<>>, NoAttrs)
    ELSE
    LET idx == token_id_to_mint(s)
        token_id == idx.value
        msg == mint_nft_msg(sg721_address, token_id, recipient_addr)
        res == Append(burn.msgs, msg)
        s1 == save_new_mint_count(idx.storage, info)
        s2 == update_total_mint_count(s1)
        seller == _compute_seller_amount_if_not_contract_sender(info, res,
                      mint_price_with_discounts, burn.network_fee, config,
                      config.allowed_burn_collections)
    IN
    IF seller.err # NoError THEN Result(seller.err, s2, <<>>, NoAttrs)
    ELSE Result(NoError, s2, seller.msgs,
                [token_id |-> token_id, recipient |-> recipient_addr,
                 network_fee |-> burn.network_fee,
                 mint_price |-> mint_price_with_discounts.amount,
                 seller_amount |-> seller.seller_amount])

_execute_mint(s, p, info, action, is_admin, recipient) ==
    IF ~is_some(s.SG721_ADDRESS) THEN Fail("Std", s)
    ELSE
    LET config == s.CONFIG
        sg721_address == unwrap(s.SG721_ADDRESS)
        recipient_addr == recipient_addr_of(info, recipient)
        mint_price_with_discounts == mint_price(s, p, is_admin)
        config_denom == config.mint_price.denom
        paid == pay_mint_if_not_burn_collection(info, mint_price_with_discounts,
                    config_denom, config.allowed_burn_collections)
    IN
    IF paid.err # NoError THEN Result(paid.err, s, <<>>, NoAttrs)
    ELSE
    LET factory_params == p
        mint_fee == mint_fee_of(factory_params, is_admin)
        burn == fairburn_if_not_burn_collection(info, mint_price_with_discounts,
                    mint_fee, factory_params, config.allowed_burn_collections)
    IN
    IF burn.err # NoError THEN Result(burn.err, s, <<>>, NoAttrs)
    ELSE
    LET idx == token_id_to_mint(s)
        token_id == idx.value
        msg == mint_nft_msg(sg721_address, token_id, recipient_addr)
        res == Append(burn.msgs, msg)
        s1 == save_new_mint_count(idx.storage, info)
        s2 == update_total_mint_count(s1)
        seller == _compute_seller_amount_if_not_contract_sender(info, res,
                      mint_price_with_discounts, burn.network_fee, config,
                      config.allowed_burn_collections)
    IN
    IF seller.err # NoError THEN Result(seller.err, s2, <<>>, NoAttrs)
    ELSE Result(NoError, s2, seller.msgs,
                [token_id |-> token_id, recipient |-> recipient_addr,
                 network_fee |-> burn.network_fee,
                 mint_price |-> mint_price_with_discounts.amount,
                 seller_amount |-> seller.seller_amount])

(* Faulty variant of execute_mint_sender: the mint count is not looked at *)
execute_mint_sender_no_limit(s, p, t, info) ==
    LET config == s.CONFIG IN
    IF t < config.start_time THEN Fail("BeforeMintStartTime", s)
    ELSE IF t >= config.end_time THEN Fail("AfterMintEndTime", s)
    ELSE _execute_mint(s, p, info, "mint_sender", FALSE, None)

(* Faulty variant of execute_mint_sender: a mint at end_time is let through *)
execute_mint_sender_end_inclusive(s, p, t, info) ==
    LET config == s.CONFIG IN
    IF t < config.start_time THEN Fail("BeforeMintStartTime", s)
    ELSE IF t > config.end_time THEN Fail("AfterMintEndTime", s)
    ELSE IF mint_count_per_addr(s, info) >= config.per_address_limit
    THEN Fail("MaxPerAddressLimitExceeded", s)
    ELSE _execute_mint(s, p, info, "mint_sender", FALSE, None)

(* Faulty variant of execute_mint_sender: a caller at the limit is let through *)
execute_mint_sender_limit_exclusive(s, p, t, info) ==
    LET config == s.CONFIG IN
    IF t < config.start_time THEN Fail("BeforeMintStartTime", s)
    ELSE IF t >= config.end_time THEN Fail("AfterMintEndTime", s)
    ELSE IF mint_count_per_addr(s, info) > config.per_address_limit
    THEN Fail("MaxPerAddressLimitExceeded", s)
    ELSE _execute_mint(s, p, info, "mint_sender", FALSE, None)

execute_mint_sender(s, p, t, info) ==
    LET config == s.CONFIG IN
    IF t < config.start_time THEN Fail("BeforeMintStartTime", s)
    ELSE IF t >= config.end_time THEN Fail("AfterMintEndTime", s)
    ELSE IF mint_count_per_addr(s, info) >= config.per_address_limit
    THEN Fail("MaxPerAddressLimitExceeded", s)
    ELSE _execute_mint(s, p, info, "mint_sender", FALSE, None)

(* Faulty variant of execute_mint_to: the start of the window is checked *)
execute_mint_to_after_start_only(s, p, t, info, recipient) ==
    IF ~addr_validate(recipient) THEN Fail("Std", s)
    ELSE
    LET config == s.CONFIG IN
    IF info.sender # config.admin THEN Fail("Unauthorized", s)
    ELSE IF t < config.start_time THEN Fail("BeforeMintStartTime", s)
    ELSE IF t >= config.end_time THEN Fail("AfterMintEndTime", s)
    ELSE _execute_mint(s, p, info, "mint_to", TRUE, Some(recipient))

(* Faulty variant of execute_mint_to: the sender is not checked *)
execute_mint_to_unchecked(s, p, t, info, recipient) ==
    IF ~addr_validate(recipient) THEN Fail("Std", s)
    ELSE
    LET config == s.CONFIG IN
    IF t >= config.end_time THEN Fail("AfterMintEndTime", s)
    ELSE _execute_mint(s, p, info, "mint_to", TRUE, Some(recipient))

execute_mint_to(s, p, t, info, recipient) ==
    IF ~addr_validate(recipient) THEN Fail("Std", s)
    ELSE
    LET config == s.CONFIG IN
    IF info.sender # config.admin THEN Fail("Unauthorized", s)
    ELSE IF t >= config.end_time THEN Fail("AfterMintEndTime", s)
    ELSE _execute_mint(s, p, info, "mint_to", TRUE, Some(recipient))


---------------------------------------------------------------------------
(* The other execute handlers *)

(* Faulty variant of execute_purge: the total is cleared with the table *)
execute_purge_total_cleared(s, t, info) ==
    IF ~nonpayable(info) THEN Fail("Payment", s)
    ELSE IF t <= s.CONFIG.end_time THEN Fail("MintingHasNotYetEnded", s)
    ELSE Succeed([s EXCEPT !.MINTER_ADDRS = <<>>, !.TOTAL_MINT_COUNT = 0], <<>>)

(* Purge frees data after a mint has ended; anyone can purge *)
(* Faulty variant of execute_purge: the admin's entry is left in place *)
execute_purge_admin_kept(s, t, info) ==
    IF ~nonpayable(info) THEN Fail("Payment", s)
    ELSE IF t <= s.CONFIG.end_time THEN Fail("MintingHasNotYetEnded", s)
    ELSE Succeed([s EXCEPT !.MINTER_ADDRS =
                     [a \in DOMAIN @ \cap {s.CONFIG.admin} |-> @[a]]], <<>>)

execute_purge(s, t, info) ==
    IF ~nonpayable(info) THEN Fail("Payment", s)
    ELSE IF t <= s.CONFIG.end_time THEN Fail("MintingHasNotYetEnded", s)
    ELSE Succeed([s EXCEPT !.MINTER_ADDRS = <<>>], <<>>)

(* Faulty variant of execute_update_mint_price: a started sale's price can *)
(* be raised.                                                              *)
execute_update_mint_price_any_direction(s, p, t, info, price) ==
    IF ~nonpayable(info) THEN Fail("Payment", s)
    ELSE
    LET config == s.CONFIG IN
    IF info.sender # config.admin THEN Fail("Unauthorized", s)
    ELSE IF t >= config.end_time THEN Fail("AfterMintEndTime", s)
    ELSE IF p.min_mint_price > price THEN Fail("InsufficientMintPrice", s)
    ELSE Succeed([s EXCEPT !.CONFIG.mint_price = coin(price, config.mint_price.denom)],
                 <<>>)

(* Faulty variant of execute_update_mint_price: the factory's minimum is   *)
(* not looked at.                                                          *)
execute_update_mint_price_no_floor(s, p, t, info, price) ==
    IF ~nonpayable(info) THEN Fail("Payment", s)
    ELSE
    LET config == s.CONFIG IN
    IF info.sender # config.admin THEN Fail("Unauthorized", s)
    ELSE IF t >= config.end_time THEN Fail("AfterMintEndTime", s)
    ELSE IF t >= config.start_time /\ price >= config.mint_price.amount
    THEN Fail("UpdatedMintPriceTooHigh", s)
    ELSE Succeed([s EXCEPT !.CONFIG.mint_price = coin(price, config.mint_price.denom)],
                 <<>>)

execute_update_mint_price(s, p, t, info, price) ==
    IF ~nonpayable(info) THEN Fail("Payment", s)
    ELSE
    LET config == s.CONFIG IN
    IF info.sender # config.admin THEN Fail("Unauthorized", s)
    ELSE IF t >= config.end_time THEN Fail("AfterMintEndTime", s)
    ELSE IF t >= config.start_time /\ price >= config.mint_price.amount
    THEN Fail("UpdatedMintPriceTooHigh", s)
    ELSE IF p.min_mint_price > price THEN Fail("InsufficientMintPrice", s)
    ELSE Succeed([s EXCEPT !.CONFIG.mint_price = coin(price, config.mint_price.denom)],
                 <<>>)

(* Faulty variant of execute_update_start_time: a start_time the clock has *)
(* already passed is taken.                                                *)
execute_update_start_time_in_past(s, t, info, start_time) ==
    IF ~nonpayable(info) THEN Fail("Payment", s)
    ELSE
    LET config == s.CONFIG IN
    IF info.sender # config.admin THEN Fail("Unauthorized", s)
    ELSE IF t >= config.start_time THEN Fail("AlreadyStarted", s)
    ELSE IF start_time > config.end_time THEN Fail("InvalidStartTime", s)
    ELSE Succeed([s EXCEPT !.CONFIG.start_time = start_time], <<>>)

(* Faulty variant of execute_update_start_time: end_time is not looked at *)
execute_update_start_time_past_end(s, t, info, start_time) ==
    IF ~nonpayable(info) THEN Fail("Payment", s)
    ELSE
    LET config == s.CONFIG IN
    IF info.sender # config.admin THEN Fail("Unauthorized", s)
    ELSE IF t >= config.start_time THEN Fail("AlreadyStarted", s)
    ELSE IF t > start_time THEN Fail("InvalidStartTime", s)
    ELSE Succeed([s EXCEPT !.CONFIG.start_time = start_time], <<>>)

(* Faulty variant of execute_update_start_time: end_time is moved along *)
(* with start_time, keeping the length of the window                   *)
execute_update_start_time_window_shifted(s, t, info, start_time) ==
    IF ~nonpayable(info) THEN Fail("Payment", s)
    ELSE
    LET config == s.CONFIG IN
    IF info.sender # config.admin THEN Fail("Unauthorized", s)
    ELSE IF t >= config.start_time THEN Fail("AlreadyStarted", s)
    ELSE IF t > start_time THEN Fail("InvalidStartTime", s)
    ELSE IF start_time > config.end_time THEN Fail("InvalidStartTime", s)
    ELSE Succeed([s EXCEPT !.CONFIG.start_time = start_time,
                           !.CONFIG.end_time = start_time + (@ - config.start_time)],
                 <<>>)

execute_update_start_time(s, t, info, start_time) ==
    IF ~nonpayable(info) THEN Fail("Payment", s)
    ELSE
    LET config == s.CONFIG IN
    IF info.sender # config.admin THEN Fail("Unauthorized", s)
    ELSE IF t >= config.start_time THEN Fail("AlreadyStarted", s)
    ELSE IF t > start_time THEN Fail("InvalidStartTime", s)
    ELSE IF start_time > config.end_time THEN Fail("InvalidStartTime", s)
    ELSE Succeed([s EXCEPT !.CONFIG.start_time = start_time], <<>>)

(* Faulty variant of execute_update_end_time: an ended sale can be reopened *)
execute_update_end_time_after_end(s, t, info, end_time) ==
    IF ~nonpayable(info) THEN Fail("Payment", s)
    ELSE
    LET config == s.CONFIG IN
    IF info.sender # config.admin THEN Fail("Unauthorized", s)
    ELSE IF t > end_time THEN Fail("InvalidEndTime", s)
    ELSE IF end_time < config.start_time THEN Fail("InvalidEndTime", s)
    ELSE Succeed([s EXCEPT !.CONFIG.end_time = end_time], <<>>)

execute_update_end_time(s, t, info, end_time) ==
    IF ~nonpayable(info) THEN Fail("Payment", s)
    ELSE
    LET config == s.CONFIG IN
    IF info.sender # config.admin THEN Fail("Unauthorized", s)
    ELSE IF t >= config.end_time THEN Fail("AlreadyStarted", s)
    ELSE IF t > end_time THEN Fail("InvalidEndTime", s)
    ELSE IF end_time < config.start_time THEN Fail("InvalidEndTime", s)
    ELSE Succeed([s EXCEPT !.CONFIG.end_time = end_time], <<>>)

(* Faulty variant of execute_update_start_trading_time: the ceiling of *)
(* start_time + offset is not enforced                                *)
execute_update_start_trading_time_no_ceiling(s, p, t, info, start_time) ==
    IF ~nonpayable(info) THEN Fail("Payment", s)
    ELSE IF ~is_some(s.SG721_ADDRESS) THEN Fail("Std", s)
    ELSE IF info.sender # s.CONFIG.admin THEN Fail("Unauthorized", s)
    ELSE IF is_some(start_time) /\ t > unwrap(start_time)
    THEN Fail("InvalidStartTradingTime", s)
    ELSE Succeed(s, <<[kind |-> "update_start_trading_time",
                       contract |-> unwrap(s.SG721_ADDRESS),
                       start_trading_time |-> start_time]>>)

execute_update_start_trading_time(s, p, t, info, start_time) ==
    IF ~nonpayable(info) THEN Fail("Payment", s)
    ELSE IF ~is_some(s.SG721_ADDRESS) THEN Fail("Std", s)
    ELSE
    LET config == s.CONFIG
        default_start_time_with_offset == config.start_time + p.max_trading_offset_secs
    IN
    IF info.sender # config.admin THEN Fail("Unauthorized", s)
    ELSE IF is_some(start_time) /\ t > unwrap(start_time)
    THEN Fail("InvalidStartTradingTime", s)
    ELSE IF is_some(start_time) /\ unwrap(start_time) > default_start_time_with_offset
    THEN Fail("InvalidStartTradingTime", s)
    ELSE Succeed(s, <<[kind |-> "update_start_trading_time",
                       contract |-> unwrap(s.SG721_ADDRESS),
                       start_trading_time |-> start_time]>>)

(* Faulty variant of execute_update_per_address_limit: 0 is taken *)
execute_update_per_address_limit_zero_allowed(s, p, info, per_address_limit) ==
    IF ~nonpayable(info) THEN Fail("Payment", s)
    ELSE
    LET config == s.CONFIG IN
    IF info.sender # config.admin THEN Fail("Unauthorized", s)
    ELSE IF per_address_limit > p.max_per_address_limit
    THEN Fail("InvalidPerAddressLimit", s)
    ELSE Succeed([s EXCEPT !.CONFIG.per_address_limit = per_address_limit], <<>>)

execute_update_per_address_limit(s, p, info, per_address_limit) ==
    IF ~nonpayable(info) THEN Fail("Payment", s)
    ELSE
    LET config == s.CONFIG IN
    IF info.sender # config.admin THEN Fail("Unauthorized", s)
    ELSE IF per_address_limit = 0 \/ per_address_limit > p.max_per_address_limit
    THEN Fail("InvalidPerAddressLimit", s)
    ELSE Succeed([s EXCEPT !.CONFIG.per_address_limit = per_address_limit], <<>>)

(* burn_to_mint::generate_burn_msg: the instruction that burns the         *)
(* received item, addressed to the collection that sent it.                *)
generate_burn_msg(info, msg) ==
    <<[kind |-> "burn", contract |-> info.sender, token_id |-> msg.token_id]>>

(* Faulty variant of burn_and_mint: the mint is made in the name of the *)
(* owner who sent the token, not of the calling collection             *)
burn_and_mint_owner_keyed(s, p, t, info, msg) ==
    LET res == generate_burn_msg(info, msg)
        mint_res == execute_mint_sender(s, p, t, MessageInfo(msg.sender, info.funds))
    IN IF ~is_ok(mint_res) THEN mint_res
       ELSE [mint_res EXCEPT !.msgs = @ \o res]

burn_and_mint(s, p, t, info, msg) ==
    LET res == generate_burn_msg(info, msg)
        mint_res == execute_mint_sender(s, p, t, info)
    IN IF ~is_ok(mint_res) THEN mint_res
       ELSE [mint_res EXCEPT !.msgs = @ \o res]

execute(s, p, t, info, msg) ==
    CASE msg.tag = "Mint" -> execute_mint_sender(s, p, t, info)
      [] msg.tag = "Purge" -> execute_purge(s, t, info)
      [] msg.tag = "UpdateMintPrice" -> execute_update_mint_price(s, p, t, info, msg.price)
      [] msg.tag = "UpdateStartTime" -> execute_update_start_time(s, t, info, msg.time)
      [] msg.tag = "UpdateEndTime" -> execute_update_end_time(s, t, info, msg.time)
      [] msg.tag = "UpdateStartTradingTime" ->
            execute_update_start_trading_time(s, p, t, info, msg.time)
      [] msg.tag = "UpdatePerAddressLimit" ->
            execute_update_per_address_limit(s, p, info, msg.per_address_limit)
      [] msg.tag = "MintTo" -> execute_mint_to(s, p, t, info, msg.recipient)
      [] msg.tag = "ReceiveNft" -> burn_and_mint(s, p, t, info, msg.msg)

---------------------------------------------------------------------------
(* sudo, reply and the queries *)

(* The status is loaded and changed in a local copy *)
update_status(s, is_verified, is_blocked, is_explicit) ==
    LET status == [is_verified |-> is_verified, is_blocked |-> is_blocked,
                   is_explicit |-> is_explicit]
    IN Succeed(s, <<>>)

sudo(s, msg) == update_status(s, msg.is_verified, msg.is_blocked, msg.is_explicit)

INSTANTIATE_SG721_REPLY_ID == 1

(* cw_utils::parse_reply_instantiate_data: the created contract's address, *)
(* or an error when the reply carries no well-formed creation result.      *)
parse_reply_instantiate_data(msg) ==
    IF is_some(msg.data) THEN [err |-> "Ok", contract_address |-> unwrap(msg.data)]
    ELSE [err |-> "ParseReply", contract_address |-> ""]

(* Faulty variant of reply: the address parsed is not saved *)
reply_not_saved(s, msg) ==
    IF msg.id # INSTANTIATE_SG721_REPLY_ID THEN Fail("InvalidReplyID", s)
    ELSE LET res == parse_reply_instantiate_data(msg) IN
         IF res.err = "Ok" THEN Succeed(s, <<>>)
         ELSE Fail("InstantiateSg721Error", s)

(* Faulty variant of reply: the id of the reply is not looked at *)
reply_any_id(s, msg) ==
    LET res == parse_reply_instantiate_data(msg) IN
    IF res.err = "Ok"
    THEN Succeed([s EXCEPT !.SG721_ADDRESS = Some(res.contract_address)], <<>>)
    ELSE Fail("InstantiateSg721Error", s)

reply(s, msg) ==
    IF msg.id # INSTANTIATE_SG721_REPLY_ID THEN Fail("InvalidReplyID", s)
    ELSE LET res == parse_reply_instantiate_data(msg) IN
         IF res.err = "Ok"
         THEN Succeed([s EXCEPT !.SG721_ADDRESS = Some(res.contract_address)], <<>>)
         ELSE Fail("InstantiateSg721Error", s)

query_config(s) ==
    IF ~is_some(s.SG721_ADDRESS) THEN [err |-> "Std"]
    ELSE [err |-> "Ok",
          admin |-> s.CONFIG.admin,
          nft_data |-> s.CONFIG.nft_data,
          payment_address |-> s.CONFIG.payment_address,
          per_address_limit |-> s.CONFIG.per_address_limit,
          end_time |-> s.CONFIG.end_time,
          sg721_address |-> unwrap(s.SG721_ADDRESS),
          sg721_code_id |-> s.CONFIG.collection_code_id,
          start_time |-> s.CONFIG.start_time,
          mint_price |-> s.CONFIG.mint_price,
          factory |-> s.CONFIG.factory]

query_status(s) == [status |-> s.STATUS]

query_mint_count(s) == [count |-> s.TOTAL_MINT_COUNT]

query_mint_count_per_address(s, address) ==
    [address |-> address,
     count |-> IF address \in DOMAIN s.MINTER_ADDRS THEN s.MINTER_ADDRS[address] ELSE 0]

---------------------------------------------------------------------------
(* instantiate *)

StatusDefault == [is_verified |-> FALSE, is_blocked |-> FALSE, is_explicit |-> FALSE]

EmptyStorage ==
    [CONFIG |-> None, STATUS |-> None, MINTER_ADDRS |-> <<>>,
     TOTAL_MINT_COUNT |-> None, SG721_ADDRESS |-> None,
     TOKEN_INDEX |-> TokenIndexBase]

instantiate(p, info, msg) ==
    LET factory == info.sender
        s0 == [EmptyStorage EXCEPT !.STATUS = StatusDefault]
        default_start_time_with_offset ==
            msg.init_msg.start_time + p.max_trading_offset_secs
        asked == msg.collection_params.info.start_trading_time
        start_trading_time == Some(unwrap_or(asked, default_start_time_with_offset))
        config ==
            [factory |-> factory,
             collection_code_id |-> msg.collection_params.code_id,
             admin |-> msg.collection_params.info.creator,
             payment_address |-> msg.init_msg.payment_address,
             per_address_limit |-> msg.init_msg.per_address_limit,
             start_time |-> msg.init_msg.start_time,
             end_time |-> msg.init_msg.end_time,
             nft_data |-> msg.init_msg.nft_data,
             mint_price |-> msg.init_msg.mint_price,
             allowed_burn_collections |-> msg.allowed_burn_collections]
    IN
    IF msg.init_msg.nft_data.nft_data_type = "OffChainMetadata"
       /\ ~is_some(msg.init_msg.nft_data.token_uri)
    THEN Fail("InvalidBaseTokenURI", s0)
    ELSE IF msg.init_msg.nft_data.nft_data_type = "OffChainMetadata"
            /\ unwrap(msg.init_msg.nft_data.token_uri).scheme # "ipfs"
    THEN Fail("InvalidBaseTokenURI", s0)
    ELSE IF is_some(asked) /\ unwrap(asked) > default_start_time_with_offset
    THEN Fail("InvalidStartTradingTime", s0)
    ELSE IF ~addr_validate(msg.collection_params.info.creator) THEN Fail("Std", s0)
    ELSE Succeed([s0 EXCEPT !.CONFIG = config, !.TOTAL_MINT_COUNT = 0],
                 <<[kind |-> "instantiate", code_id |-> msg.collection_params.code_id,
                    start_trading_time |-> start_trading_time,
                    admin |-> config.admin, id |-> INSTANTIATE_SG721_REPLY_ID]>>)

(* The creation messages the factory sends *)
InstantiateMsgs ==
    { [init_msg |->
         [start_time |-> 1, end_time |-> 2, per_address_limit |-> 1,
          mint_price |-> coin(1000, NATIVE_DENOM),
          payment_address |-> pa,
          nft_data |-> [nft_data_type |-> "OffChainMetadata",
                        token_uri |-> Some([scheme |-> sch, path |-> "meta"])]],
       collection_params |->
         [code_id |-> 1,
          info |-> [creator |-> ADMIN, start_trading_time |-> stt]],
       allowed_burn_collections |-> Some({COLL})]
      : pa \in {None, Some(PAY)}, sch \in {"ipfs", "http"},
        stt \in {None, Some(1), Some(MaxTime)} }

---------------------------------------------------------------------------
(* The state machine *)

minted_ids(msgs) ==
    LET mints == SelectSeq(msgs, LAMBDA m : m.kind = "mint")
    IN [i \in 1..Len(mints) |-> mints[i].token_id]

(* Faulty variant of committed: the writes made before an Err are kept *)
committed_partial_writes(s, r) == r.storage

(* A request either returns Ok, and its writes and messages take effect,  *)
(* or returns Err, and none of them does.                                 *)
committed(s, r) == IF is_ok(r) THEN r.storage ELSE s

Commit(r) ==
    /\ is_ok(r) => r.storage.TOTAL_MINT_COUNT <= MaxMints
    /\ storage' = committed(storage, r)
    /\ outbox' = IF is_ok(r) THEN r.msgs ELSE outbox
    /\ issued' = IF is_ok(r) THEN issued \o minted_ids(r.msgs) ELSE issued
    /\ UNCHANGED <<params, now>>

Init ==
    /\ params \in ParamSets
    /\ now = 0
    /\ issued = <<>>
    /\ \E msg \in InstantiateMsgs :
          LET r == instantiate(params, MessageInfo(FACTORY, <<>>), msg) IN
          /\ is_ok(r)
          /\ storage = r.storage
          /\ outbox = r.msgs

Infos == {MessageInfo(sender, funds) : sender \in Senders, funds \in FundsSet}

(* Requests to the handlers that take no payment *)
FreeInfos ==
    {MessageInfo(sender, funds) :
        sender \in {ADMIN, ALICE}, funds \in {<<>>, <<coin(15, NATIVE_DENOM)>>}}

(* Requests to the admin's purchase entry point *)
AdminInfos ==
    {MessageInfo(sender, funds) : sender \in {ADMIN, ALICE}, funds \in FundsSet}

Mint ==
    \E info \in Infos :
        Commit(execute(storage, params, now, info, [tag |-> "Mint"]))

MintTo ==
    \E info \in AdminInfos, recipient \in Recipients :
        Commit(execute(storage, params, now, info,
                       [tag |-> "MintTo", recipient |-> recipient]))

ReceiveNft ==
    \E info \in Infos :
        Commit(execute(storage, params, now, info,
                       [tag |-> "ReceiveNft",
                        msg |-> [sender |-> ALICE, token_id |-> "7"]]))

Purge ==
    \E info \in FreeInfos :
        Commit(execute(storage, params, now, info, [tag |-> "Purge"]))

UpdateMintPrice ==
    \E info \in FreeInfos, price \in Amounts :
        Commit(execute(storage, params, now, info,
                       [tag |-> "UpdateMintPrice", price |-> price]))

UpdateStartTime ==
    \E info \in FreeInfos, time \in Times :
        Commit(execute(storage, params, now, info,
                       [tag |-> "UpdateStartTime", time |-> time]))

UpdateEndTime ==
    \E info \in FreeInfos, time \in Times :
        Commit(execute(storage, params, now, info,
                       [tag |-> "UpdateEndTime", time |-> time]))

UpdateStartTradingTime ==
    \E info \in FreeInfos, time \in {None, Some(1), Some(MaxTime)} :
        Commit(execute(storage, params, now, info,
                       [tag |-> "UpdateStartTradingTime", time |-> time]))

UpdatePerAddressLimit ==
    \E info \in FreeInfos, per_address_limit \in 0..3 :
        Commit(execute(storage, params, now, info,
                       [tag |-> "UpdatePerAddressLimit",
                        per_address_limit |-> per_address_limit]))

Sudo ==
    \E v \in BOOLEAN, b \in BOOLEAN, e \in BOOLEAN :
        Commit(sudo(storage, [is_verified |-> v, is_blocked |-> b, is_explicit |-> e]))

Reply ==
    \E id \in {INSTANTIATE_SG721_REPLY_ID, INSTANTIATE_SG721_REPLY_ID + 1},
       data \in {None, Some(SG_A), Some(SG_B)} :
        Commit(reply(storage, [id |-> id, data |-> data]))

(* The factory's governance changes its parameters between requests *)
FactoryUpdateParams ==
    /\ params' \in ParamSets \ {params}
    /\ UNCHANGED <<storage, now, outbox, issued>>

(* Block time advances *)
Tick ==
    /\ now < MaxTime
    /\ now' = now + 1
    /\ UNCHANGED <<storage, params, outbox, issued>>

Next ==
    \/ Mint
    \/ MintTo
    \/ ReceiveNft
    \/ Purge
    \/ UpdateMintPrice
    \/ UpdateStartTime
    \/ UpdateEndTime
    \/ UpdateStartTradingTime
    \/ UpdatePerAddressLimit
    \/ Sudo
    \/ Reply
    \/ FactoryUpdateParams
    \/ Tick

Spec == Init /\ [][Next]_vars

---------------------------------------------------------------------------
(* Requests the properties range over *)

PurchaseMsgs ==
    {[tag |-> "Mint"]}
        \cup {[tag |-> "MintTo", recipient |-> r] : r \in Recipients}
        \cup {[tag |-> "ReceiveNft", msg |-> [sender |-> ALICE, token_id |-> "7"]]}

AdminOnlyMsgs ==
    {[tag |-> "MintTo", recipient |-> r] : r \in Recipients}
        \cup {[tag |-> "UpdateMintPrice", price |-> a] : a \in Amounts}
        \cup {[tag |-> "UpdateStartTime", time |-> x] : x \in 0..MaxTime}
        \cup {[tag |-> "UpdateEndTime", time |-> x] : x \in 0..MaxTime}
        \cup {[tag |-> "UpdateStartTradingTime", time |-> x] :
                 x \in {None} \cup {Some(y) : y \in 0..MaxTime}}
        \cup {[tag |-> "UpdatePerAddressLimit", per_address_limit |-> n] : n \in 0..3}

OtherMsgs == AdminOnlyMsgs \cup {[tag |-> "Purge"]}

SudoMsgs ==
    {[is_verified |-> v, is_blocked |-> b, is_explicit |-> e] :
        v \in BOOLEAN, b \in BOOLEAN, e \in BOOLEAN}

ReplyMsgs ==
    {[id |-> id, data |-> data] :
        id \in {INSTANTIATE_SG721_REPLY_ID, INSTANTIATE_SG721_REPLY_ID + 1},
        data \in {None, Some(SG_A), Some(SG_B)}}

(* The request `msg` from `info`, run in the current state *)
run(info, msg) == execute(storage, params, now, info, msg)

(* What a request emits: its messages when it returns Ok, nothing otherwise *)
emitted(r) == IF is_ok(r) THEN r.msgs ELSE <<>>

sends_to(msgs, addr) == SelectSeq(msgs, LAMBDA m : m.kind = "send" /\ m.to = addr)

seller_address == unwrap_or(storage.CONFIG.payment_address, storage.CONFIG.admin)

in_window == storage.CONFIG.start_time <= now /\ now < storage.CONFIG.end_time

(* The collection address has been bound by the reply *)
bound == is_some(storage.SG721_ADDRESS)

under_cap(info) ==
    mint_count_per_addr(storage, info) < storage.CONFIG.per_address_limit

(* The price a purchase request has to pay: mint-to pays the airdrop price *)
effective_price(msg) == mint_price(storage, params, msg.tag = "MintTo")

(* What the caller attached in the configured denomination *)
attached(info) == may_pay(info, storage.CONFIG.mint_price.denom)

exact_payment(info, msg) ==
    attached(info).err = "Ok" /\ attached(info).amount = effective_price(msg).amount

allow_listed(info) ==
    sender_is_allowed_burn_collection(info, storage.CONFIG.allowed_burn_collections)

(* The fee rate a purchase request is charged, in basis points *)
effective_fee_bps(msg) == mint_fee_of(params, msg.tag = "MintTo")

sends(msgs) == SelectSeq(msgs, LAMBDA x : x.kind = "send")

send(to, amount, denom) ==
    [kind |-> "send", to |-> to, amount |-> amount, denom |-> denom]

(* The request passes every check made before the payment is looked at *)
reaches_payment(info, msg) ==
    /\ bound
    /\ msg.tag = "MintTo" =>
          /\ addr_validate(msg.recipient)
          /\ info.sender = storage.CONFIG.admin
          /\ now < storage.CONFIG.end_time
    /\ msg.tag # "MintTo" => in_window /\ under_cap(info)

---------------------------------------------------------------------------
C2_TotalMintCount ==
    /\ \A msg \in InstantiateMsgs :
          LET r == instantiate(params, MessageInfo(FACTORY, <<>>), msg) IN
          is_ok(r) => r.storage.TOTAL_MINT_COUNT = 0
    /\ storage.TOTAL_MINT_COUNT = Len(issued)
    /\ \A info \in Infos, msg \in PurchaseMsgs :
          LET r == run(info, msg) IN
          committed(storage, r).TOTAL_MINT_COUNT =
              IF is_ok(r) THEN storage.TOTAL_MINT_COUNT + 1
              ELSE storage.TOTAL_MINT_COUNT
    /\ \A info \in Infos, msg \in OtherMsgs \ PurchaseMsgs :
          committed(storage, run(info, msg)).TOTAL_MINT_COUNT = storage.TOTAL_MINT_COUNT
    /\ \A msg \in SudoMsgs :
          committed(storage, sudo(storage, msg)).TOTAL_MINT_COUNT = storage.TOTAL_MINT_COUNT
    /\ \A msg \in ReplyMsgs :
          committed(storage, reply(storage, msg)).TOTAL_MINT_COUNT = storage.TOTAL_MINT_COUNT

(* C2 witness: two purchases have succeeded, the sale has ended and the    *)
(* per-address table has been purged.                                      *)
C2_Witness ==
    /\ storage.TOTAL_MINT_COUNT = 2
    /\ Len(issued) = 2
    /\ now > storage.CONFIG.end_time
    /\ storage.MINTER_ADDRS = <<>>

(* C3: a successful purchase emits exactly one item-creation message,      *)
(* whose token id is the value of the token index before the request, and  *)
(* commits a token index greater by exactly 1.                             *)
C3_IdentifierIsPriorCounter ==
    \A info \in Infos, msg \in PurchaseMsgs :
        LET r == run(info, msg) IN
        is_ok(r) =>
            /\ minted_ids(r.msgs) = <<storage.TOKEN_INDEX>>
            /\ r.attrs.token_id = storage.TOKEN_INDEX
            /\ committed(storage, r).TOKEN_INDEX = storage.TOKEN_INDEX + 1

(* C3 witness: the last successful request was a purchase that was handed  *)
(* the identifier just below the current token index, after an earlier one. *)
C3_Witness ==
    /\ Len(issued) = 2
    /\ minted_ids(outbox) = <<storage.TOKEN_INDEX - 1>>
    /\ issued[2] = storage.TOKEN_INDEX - 1

(* C4: the identifiers handed out by successful purchases are consecutive  *)
(* and strictly increasing from the first one, so none is repeated, the    *)
(* token index is the next one to hand out, and a failed purchase does not *)
(* advance the token index.                                                *)
C4_IdentifiersConsecutive ==
    /\ \A i \in 1..Len(issued) : issued[i] = TokenIndexBase + i - 1
    /\ \A i, j \in 1..Len(issued) :
          /\ i < j => issued[i] < issued[j]
          /\ i # j => issued[i] # issued[j]
    /\ storage.TOKEN_INDEX = TokenIndexBase + Len(issued)
    /\ \A info \in Infos, msg \in PurchaseMsgs :
          LET r == run(info, msg) IN
          ~is_ok(r) => committed(storage, r).TOKEN_INDEX = storage.TOKEN_INDEX

(* C4 witness: two purchases have succeeded with consecutive identifiers,  *)
(* and a further purchase request fails in the same state.                 *)
C4_Witness ==
    /\ issued = <<TokenIndexBase, TokenIndexBase + 1>>
    /\ \E info \in Infos, msg \in PurchaseMsgs : ~is_ok(run(info, msg))

(* C5, as stated: a self-mint fails with BeforeMintStartTime when          *)
(* now < start_time and with AfterMintEndTime when now >= end_time; with   *)
(* the collection bound, the caller under the cap and the exact payment    *)
(* attached it succeeds at now = start_time and fails with                 *)
(* AfterMintEndTime at now = end_time.                                     *)
C5_AsStated ==
    \A info \in Infos :
        LET r == run(info, [tag |-> "Mint"])
            eligible == bound /\ under_cap(info)
                              /\ exact_payment(info, [tag |-> "Mint"])
        IN
        /\ now < storage.CONFIG.start_time => r.err.kind = "BeforeMintStartTime"
        /\ now >= storage.CONFIG.end_time => r.err.kind = "AfterMintEndTime"
        /\ (eligible /\ now = storage.CONFIG.start_time) => is_ok(r)
        /\ (eligible /\ now = storage.CONFIG.end_time) =>
              r.err.kind = "AfterMintEndTime"

(* C5: a self-mint fails with BeforeMintStartTime when now < start_time    *)
(* and with AfterMintEndTime when now >= end_time; with the collection     *)
(* bound, the caller under the cap, the exact payment attached, a          *)
(* non-empty window (start_time < end_time) and a factory mint fee rate of *)
(* at most 100% it succeeds at now = start_time; at now = end_time it      *)
(* fails with AfterMintEndTime.                                            *)
C5_WindowBounds ==
    \A info \in Infos :
        LET r == run(info, [tag |-> "Mint"])
            eligible == bound /\ under_cap(info)
                              /\ exact_payment(info, [tag |-> "Mint"])
        IN
        /\ now < storage.CONFIG.start_time => r.err.kind = "BeforeMintStartTime"
        /\ now >= storage.CONFIG.end_time => r.err.kind = "AfterMintEndTime"
        /\ ( /\ eligible
             /\ now = storage.CONFIG.start_time
             /\ storage.CONFIG.start_time < storage.CONFIG.end_time
             /\ params.mint_fee_bps <= 10000 ) => is_ok(r)
        /\ (eligible /\ now = storage.CONFIG.end_time) =>
              r.err.kind = "AfterMintEndTime"

(* C5 witness: ALICE has self-minted at now = start_time, and a further    *)
(* eligible caller's self-mint still succeeds at that time.                *)
C5_Witness ==
    /\ now = storage.CONFIG.start_time
    /\ now < storage.CONFIG.end_time
    /\ mint_count_per_addr(storage, MessageInfo(ALICE, <<>>)) = 1
    /\ Len(minted_ids(outbox)) = 1
    /\ \E info \in Infos :
          /\ bound /\ under_cap(info) /\ exact_payment(info, [tag |-> "Mint"])
          /\ is_ok(run(info, [tag |-> "Mint"]))

(* C6: a self-mint by a caller whose mint count is already at or above     *)
(* per_address_limit never succeeds and changes nothing, and inside the    *)
(* window its error is MaxPerAddressLimitExceeded; a successful self-mint  *)
(* raises the caller's own count by exactly 1 and leaves every other       *)
(* address's count as it was; a caller under the limit is never refused    *)
(* with MaxPerAddressLimitExceeded, whatever the other counts are.         *)
C6_PerAddressLimit ==
    \A info \in Infos :
        LET r == run(info, [tag |-> "Mint"])
            after == committed(storage, r)
            count == mint_count_per_addr(storage, info)
        IN
        /\ count >= storage.CONFIG.per_address_limit =>
              /\ ~is_ok(r)
              /\ after = storage
              /\ in_window => r.err.kind = "MaxPerAddressLimitExceeded"
        /\ is_ok(r) =>
              /\ mint_count_per_addr(after, info) = count + 1
              /\ \A other \in Senders \ {info.sender} :
                    mint_count_per_addr(after, MessageInfo(other, <<>>)) =
                        mint_count_per_addr(storage, MessageInfo(other, <<>>))
              /\ DOMAIN after.MINTER_ADDRS =
                    DOMAIN storage.MINTER_ADDRS \cup {info.sender}
        /\ count < storage.CONFIG.per_address_limit =>
              r.err.kind # "MaxPerAddressLimitExceeded"

(* C6 witness: with a limit of 1 ALICE has minted once (count 1, total 1); *)
(* inside the window her second self-mint is refused with                  *)
(* MaxPerAddressLimitExceeded while another caller's self-mint succeeds.   *)
C6_Witness ==
    /\ storage.CONFIG.per_address_limit = 1
    /\ mint_count_per_addr(storage, MessageInfo(ALICE, <<>>)) = 1
    /\ storage.TOTAL_MINT_COUNT = 1
    /\ in_window
    /\ \E funds \in FundsSet :
          /\ exact_payment(MessageInfo(ALICE, funds), [tag |-> "Mint"])
          /\ run(MessageInfo(ALICE, funds), [tag |-> "Mint"]).err.kind =
                "MaxPerAddressLimitExceeded"
    /\ \E info \in Infos :
          info.sender # ALICE /\ is_ok(run(info, [tag |-> "Mint"]))

(* C7: a purchase by a caller that is not an allow-listed collection       *)
(* succeeds only if the amount attached in the configured denomination     *)
(* equals the effective price exactly; with less or more attached the      *)
(* request never succeeds and changes nothing, and once it has passed the  *)
(* checks made before the payment its error is IncorrectPaymentAmount      *)
(* carrying the paid and the required amount.                              *)
C7_ExactPayment ==
    \A info \in Infos, msg \in PurchaseMsgs :
        ~allow_listed(info) =>
            LET r == run(info, msg)
                paid == attached(info)
                required == effective_price(msg).amount
            IN
            /\ is_ok(r) => paid.err = "Ok" /\ paid.amount = required
            /\ (paid.err = "Ok" /\ paid.amount # required) =>
                  /\ ~is_ok(r)
                  /\ committed(storage, r) = storage
                  /\ reaches_payment(info, msg) =>
                        r.err = IncorrectPaymentAmount(paid.amount, required)

(* C7 witness: after a successful purchase, in one state an otherwise      *)
(* eligible self-mint underpays (15 for 1000) and an otherwise eligible    *)
(* mint-to overpays (1000 for 15); both are refused.                       *)
C7_Witness ==
    /\ Len(issued) >= 1
    /\ LET info == MessageInfo(ALICE, <<coin(15, NATIVE_DENOM)>>)
           msg == [tag |-> "Mint"]
       IN /\ reaches_payment(info, msg)
          /\ run(info, msg).err = IncorrectPaymentAmount(15, 1000)
    /\ LET info == MessageInfo(ADMIN, <<coin(1000, NATIVE_DENOM)>>)
           msg == [tag |-> "MintTo", recipient |-> ALICE]
       IN /\ reaches_payment(info, msg)
          /\ run(info, msg).err = IncorrectPaymentAmount(1000, 15)

(* C8: for every successful purchase by a caller that is not an            *)
(* allow-listed collection, with effective price P and applicable fee rate *)
(* r, the network fee is floor(P * r), the seller amount is P minus the    *)
(* fee, the two add up to P, and the transfers emitted are the fee to the  *)
(* dev-fee address and the seller amount to payment_address when set and   *)
(* to admin otherwise, both in the configured denomination; P = 1000 at    *)
(* 10% gives 100 and 900.                                                  *)
C8_FeeSplit ==
    /\ mul_bps(1000, 1000) = 100
    /\ \A info \in Infos, msg \in PurchaseMsgs :
          LET r == run(info, msg)
              P == effective_price(msg).amount
              bps == effective_fee_bps(msg)
              denom == storage.CONFIG.mint_price.denom
              network_fee == r.attrs.network_fee
              seller_amount == r.attrs.seller_amount
          IN
          (is_ok(r) /\ ~allow_listed(info)) =>
              /\ network_fee * 10000 <= P * bps
              /\ P * bps < (network_fee + 1) * 10000
              /\ seller_amount = P - network_fee
              /\ seller_amount >= 0
              /\ network_fee + seller_amount = P
              /\ (P = 1000 /\ bps = 1000) =>
                    network_fee = 100 /\ seller_amount = 900
              /\ sends(r.msgs) =
                    (IF network_fee > 0
                     THEN <<send(params.dev_fee_address, network_fee, denom)>>
                     ELSE <<>>)
                    \o (IF seller_amount > 0
                        THEN <<send(IF is_some(storage.CONFIG.payment_address)
                                    THEN unwrap(storage.CONFIG.payment_address)
                                    ELSE storage.CONFIG.admin,
                                    seller_amount, denom)>>
                        ELSE <<>>)

(* C8 witness: the last successful request was a purchase at price 1000    *)
(* and 10% that sent 100 to the dev-fee address and 900 to the payment     *)
(* address.                                                                *)
C8_Witness ==
    /\ storage.CONFIG.payment_address = Some(PAY)
    /\ Len(minted_ids(outbox)) = 1
    /\ sends(outbox) = <<send(DEV, 100, NATIVE_DENOM), send(PAY, 900, NATIVE_DENOM)>>

(* C9: no successful purchase emits a transfer to the seller whose amount  *)
(* is zero: when the seller amount is 0 no transfer to the seller is       *)
(* emitted at all, and the purchase still commits the token index, the     *)
(* total and the caller's count each raised by 1.                          *)
C9_NoZeroPayout ==
    \A info \in Infos, msg \in PurchaseMsgs :
        LET r == run(info, msg)
            after == committed(storage, r)
        IN
        is_ok(r) =>
            /\ \A i \in 1..Len(r.msgs) :
                  (r.msgs[i].kind = "send" /\ r.msgs[i].to = seller_address) =>
                      r.msgs[i].amount > 0
            /\ r.attrs.seller_amount = 0 =>
                  /\ sends_to(r.msgs, seller_address) = <<>>
                  /\ after.TOKEN_INDEX = storage.TOKEN_INDEX + 1
                  /\ after.TOTAL_MINT_COUNT = storage.TOTAL_MINT_COUNT + 1
                  /\ mint_count_per_addr(after, info) =
                        mint_count_per_addr(storage, info) + 1

(* C9 witness: the last successful request was a purchase whose fee was    *)
(* the whole price of 15: the fee went to the dev-fee address, an item was *)
(* created, nothing was sent to the seller and the counters moved.         *)
C9_Witness ==
    /\ sends(outbox) = <<send(DEV, 15, NATIVE_DENOM)>>
    /\ Len(minted_ids(outbox)) = 1
    /\ sends_to(outbox, seller_address) = <<>>
    /\ storage.TOTAL_MINT_COUNT = 1
    /\ storage.TOKEN_INDEX = TokenIndexBase + 1

(* C10: in every reachable state (before the sale, during it, after its    *)
(* end, collection bound or not) a mint-to, update of the price, the start *)
(* time, the end time, the start trading time or the per-address limit     *)
(* whose sender is not the admin of CONFIG never succeeds, emits no        *)
(* message and commits no change to the storage.                           *)
C10_AdminOnly ==
    \A sender \in Senders \ {storage.CONFIG.admin}, funds \in FundsSet,
       msg \in AdminOnlyMsgs :
        LET r == run(MessageInfo(sender, funds), msg) IN
        /\ ~is_ok(r)
        /\ emitted(r) = <<>>
        /\ committed(storage, r) = storage

(* C10 witness: while the sale is open, after a purchase, with the         *)
(* collection bound, ALICE asks for a mint-to paying the airdrop price and *)
(* for a new per-address limit; both are refused as Unauthorized.          *)
C10_Witness ==
    /\ in_window
    /\ bound
    /\ Len(issued) >= 1
    /\ \E funds \in FundsSet :
          LET info == MessageInfo(ALICE, funds)
              msg == [tag |-> "MintTo", recipient |-> ALICE]
          IN /\ exact_payment(info, msg)
             /\ run(info, msg).err.kind = "Unauthorized"
    /\ run(MessageInfo(ALICE, <<>>),
           [tag |-> "UpdatePerAddressLimit", per_address_limit |-> 1]).err.kind
          = "Unauthorized"

(* C11, as stated: a mint-to by the admin to a valid recipient, with the   *)
(* collection bound and the exact (airdrop) payment attached, succeeds at  *)
(* every now < end_time, also before start_time and whatever the mint      *)
(* counts of the admin and of the recipient are; at every now >= end_time  *)
(* it fails with AfterMintEndTime.                                         *)
C11_AsStated ==
    \A funds \in FundsSet, recipient \in Recipients \ {""} :
        LET info == MessageInfo(storage.CONFIG.admin, funds)
            msg == [tag |-> "MintTo", recipient |-> recipient]
            r == run(info, msg)
        IN
        /\ (bound /\ exact_payment(info, msg) /\ now < storage.CONFIG.end_time) =>
              is_ok(r)
        /\ now >= storage.CONFIG.end_time => r.err.kind = "AfterMintEndTime"

(* C11: a mint-to by the admin to a valid recipient, with the collection   *)
(* bound, the exact (airdrop) payment attached and a factory airdrop fee   *)
(* rate of at most 100%, succeeds at every now < end_time, also before     *)
(* start_time and whatever the mint counts of the admin and of the         *)
(* recipient are; at every now >= end_time it fails with AfterMintEndTime. *)
C11_MintToUntilEnd ==
    \A funds \in FundsSet, recipient \in Recipients \ {""} :
        LET info == MessageInfo(storage.CONFIG.admin, funds)
            msg == [tag |-> "MintTo", recipient |-> recipient]
            r == run(info, msg)
        IN
        /\ ( /\ bound
             /\ exact_payment(info, msg)
             /\ params.airdrop_mint_fee_bps <= 10000
             /\ now < storage.CONFIG.end_time ) => is_ok(r)
        /\ now >= storage.CONFIG.end_time => r.err.kind = "AfterMintEndTime"

(* C11 witness: before start_time, after a mint-to that already brought    *)
(* the admin's count up to the limit, a further mint-to by the admin with  *)
(* the exact payment succeeds.                                             *)
C11_Witness ==
    /\ now < storage.CONFIG.start_time
    /\ Len(issued) >= 1
    /\ mint_count_per_addr(storage, MessageInfo(storage.CONFIG.admin, <<>>))
          >= storage.CONFIG.per_address_limit
    /\ \E funds \in FundsSet :
          LET info == MessageInfo(storage.CONFIG.admin, funds)
              msg == [tag |-> "MintTo", recipient |-> ALICE]
          IN exact_payment(info, msg) /\ is_ok(run(info, msg))

(* C12, as stated: a successful mint-to by the admin to a third party      *)
(* whose mint count already equals per_address_limit raises                *)
(* TOTAL_MINT_COUNT by 1 and the third party's mint count by 1.            *)
C12_AsStated ==
    \A funds \in FundsSet, recipient \in Recipients \ {"", storage.CONFIG.admin} :
        LET info == MessageInfo(storage.CONFIG.admin, funds)
            r == run(info, [tag |-> "MintTo", recipient |-> recipient])
            after == committed(storage, r)
            third == MessageInfo(recipient, <<>>)
        IN
        ( /\ is_ok(r)
          /\ mint_count_per_addr(storage, third) = storage.CONFIG.per_address_limit )
        => /\ after.TOTAL_MINT_COUNT = storage.TOTAL_MINT_COUNT + 1
           /\ mint_count_per_addr(after, third) =
                 mint_count_per_addr(storage, third) + 1

(* C13: the price required and the fee rate applied follow the path, not   *)
(* the caller: a successful mint-to was paid exactly the factory's airdrop *)
(* price and charged the airdrop fee rate; a successful self-mint was paid *)
(* exactly the mint price of CONFIG and charged the ordinary fee rate,     *)
(* also when its sender is the admin; a wrong amount is refused against    *)
(* the price of the path.                                                  *)
C13_PriceAndFeeByPath ==
    \A info \in Infos, msg \in PurchaseMsgs :
        ~allow_listed(info) =>
            LET r == run(info, msg)
                P == IF msg.tag = "MintTo" THEN params.airdrop_mint_price
                     ELSE storage.CONFIG.mint_price.amount
                bps == IF msg.tag = "MintTo" THEN params.airdrop_mint_fee_bps
                       ELSE params.mint_fee_bps
            IN
            /\ is_ok(r) =>
                  /\ attached(info).amount = P
                  /\ r.attrs.mint_price = P
                  /\ r.attrs.network_fee * 10000 <= P * bps
                  /\ P * bps < (r.attrs.network_fee + 1) * 10000
            /\ r.err.kind = "IncorrectPaymentAmount" => r.err.required = P

(* C13 witness: the admin has self-minted at the mint price of 1000 and    *)
(* the ordinary rate (100 to the dev-fee address, 900 to the seller), and  *)
(* in the same state a mint-to by the admin at the airdrop price of 15     *)
(* succeeds while one at 1000 is refused.                                  *)
C13_Witness ==
    /\ sends(outbox) = <<send(DEV, 100, NATIVE_DENOM), send(seller_address, 900, NATIVE_DENOM)>>
    /\ minted_ids(outbox) # <<>>
    /\ \E i \in 1..Len(outbox) : outbox[i].kind = "mint" /\ outbox[i].owner = ADMIN
    /\ is_ok(run(MessageInfo(ADMIN, <<coin(15, NATIVE_DENOM)>>),
                 [tag |-> "MintTo", recipient |-> ALICE]))
    /\ run(MessageInfo(ADMIN, <<coin(1000, NATIVE_DENOM)>>),
           [tag |-> "MintTo", recipient |-> ALICE]).err
          = IncorrectPaymentAmount(1000, 15)

(* C14, as stated: a Purge with no funds attached, from any sender,        *)
(* succeeds whenever now >= end_time (the instants at which a self-mint    *)
(* fails with AfterMintEndTime) and fails whenever now < end_time.         *)
C14_AsStated ==
    \A sender \in Senders :
        LET r == run(MessageInfo(sender, <<>>), [tag |-> "Purge"]) IN
        /\ now >= storage.CONFIG.end_time => is_ok(r)
        /\ now < storage.CONFIG.end_time => ~is_ok(r)

(* C15: once end_time has passed a Purge with no funds attached succeeds   *)
(* and leaves MINTER_ADDRS without entries; the same Purge run again on    *)
(* the result succeeds and changes nothing; both leave CONFIG,             *)
(* TOTAL_MINT_COUNT, the token index, SG721_ADDRESS and STATUS as they     *)
(* were and emit no message.                                               *)
C15_PurgeIdempotent ==
    \A sender \in Senders :
        LET info == MessageInfo(sender, <<>>)
            first == run(info, [tag |-> "Purge"])
            s1 == committed(storage, first)
            second == execute(s1, params, now, info, [tag |-> "Purge"])
            s2 == committed(s1, second)
        IN
        /\ now > storage.CONFIG.end_time => is_ok(first)
        /\ is_ok(first) =>
              /\ s1.MINTER_ADDRS = <<>>
              /\ s1 = [storage EXCEPT !.MINTER_ADDRS = <<>>]
              /\ first.msgs = <<>>
              /\ is_ok(second)
              /\ second.msgs = <<>>
              /\ s2 = s1
              /\ s2.CONFIG = storage.CONFIG
              /\ s2.TOTAL_MINT_COUNT = storage.TOTAL_MINT_COUNT
              /\ s2.TOKEN_INDEX = storage.TOKEN_INDEX
              /\ s2.SG721_ADDRESS = storage.SG721_ADDRESS
              /\ s2.STATUS = storage.STATUS

(* C15 witness: end_time has passed, two purchases were made, the table    *)
(* has been emptied by a Purge and a further Purge succeeds.               *)
C15_Witness ==
    /\ now > storage.CONFIG.end_time
    /\ storage.TOTAL_MINT_COUNT = 2
    /\ storage.TOKEN_INDEX = TokenIndexBase + 2
    /\ storage.MINTER_ADDRS = <<>>
    /\ is_ok(run(MessageInfo(ALICE, <<>>), [tag |-> "Purge"]))

(* C16: the clock never goes back and the lifecycle only moves forward:    *)
(* from a state with now >= start_time no step changes start_time; from a  *)
(* state with now >= end_time no step changes end_time, no purchase        *)
(* request of any kind succeeds, TOTAL_MINT_COUNT and the token index stay *)
(* as they are, and a MINTER_ADDRS table that is empty stays empty.        *)
C16_LifecycleForward ==
    /\ [](now >= storage.CONFIG.end_time =>
            \A info \in Infos, msg \in PurchaseMsgs : ~is_ok(run(info, msg)))
    /\ [][ /\ now' >= now
           /\ now >= storage.CONFIG.start_time =>
                 storage'.CONFIG.start_time = storage.CONFIG.start_time
           /\ now >= storage.CONFIG.end_time =>
                 /\ storage'.CONFIG.end_time = storage.CONFIG.end_time
                 /\ storage'.TOTAL_MINT_COUNT = storage.TOTAL_MINT_COUNT
                 /\ storage'.TOKEN_INDEX = storage.TOKEN_INDEX
                 /\ issued' = issued
                 /\ storage.MINTER_ADDRS = <<>> => storage'.MINTER_ADDRS = <<>>
         ]_vars

(* C16 witness: the sale has ended after a purchase, the table has been    *)
(* purged, and the admin's requests to move start_time and end_time and to *)
(* mint are all refused.                                                   *)
C16_Witness ==
    /\ now > storage.CONFIG.end_time
    /\ Len(issued) >= 1
    /\ storage.MINTER_ADDRS = <<>>
    /\ ~is_ok(run(MessageInfo(ADMIN, <<>>), [tag |-> "UpdateStartTime", time |-> MaxTime]))
    /\ ~is_ok(run(MessageInfo(ADMIN, <<>>), [tag |-> "UpdateEndTime", time |-> MaxTime]))
    /\ \A funds \in FundsSet :
          ~is_ok(run(MessageInfo(ADMIN, funds), [tag |-> "MintTo", recipient |-> ALICE]))

(* C17: once now >= start_time no step raises the mint price of CONFIG:    *)
(* every UpdateMintPrice that succeeds from then on stores a price not     *)
(* above the one stored before it, whatever requests (time updates         *)
(* included) come in between.                                              *)
C17_PriceNeverRaisedOnceActive ==
    /\ [](now >= storage.CONFIG.start_time =>
            \A info \in Infos, price \in Amounts :
                LET r == run(info, [tag |-> "UpdateMintPrice", price |-> price]) IN
                is_ok(r) =>
                    committed(storage, r).CONFIG.mint_price.amount
                        <= storage.CONFIG.mint_price.amount)
    /\ [][ now >= storage.CONFIG.start_time =>
             /\ storage'.CONFIG.mint_price.amount <= storage.CONFIG.mint_price.amount
             /\ storage'.CONFIG.start_time = storage.CONFIG.start_time
         ]_vars

(* C17 witness: the sale is active, a purchase was made, the price stands  *)
(* at 15, the admin's request to lower it to 0 succeeds and the one to     *)
(* raise it to 1000 is refused.                                            *)
C17_Witness ==
    /\ in_window
    /\ Len(issued) >= 1
    /\ storage.CONFIG.mint_price.amount = 15
    /\ is_ok(run(MessageInfo(ADMIN, <<>>), [tag |-> "UpdateMintPrice", price |-> 0]))
    /\ run(MessageInfo(ADMIN, <<>>),
           [tag |-> "UpdateMintPrice", price |-> 1000]).err.kind
          = "UpdatedMintPriceTooHigh"

(* C18, as stated: inside the window an UpdateMintPrice by the admin, with *)
(* no funds attached and a price at or above the factory's minimum, is     *)
(* refused if and only if the price is above the current mint price; a     *)
(* price equal to the current one is accepted and leaves it unchanged.     *)
C18_AsStated ==
    \A price \in Amounts :
        LET r == run(MessageInfo(storage.CONFIG.admin, <<>>),
                     [tag |-> "UpdateMintPrice", price |-> price])
        IN
        (in_window /\ price >= params.min_mint_price) =>
            /\ ~is_ok(r) <=> price > storage.CONFIG.mint_price.amount
            /\ price = storage.CONFIG.mint_price.amount =>
                  /\ is_ok(r)
                  /\ committed(storage, r).CONFIG.mint_price = storage.CONFIG.mint_price

(* C19: an UpdateMintPrice fails and leaves the mint price unchanged       *)
(* whenever now >= end_time or the price is below the factory's current    *)
(* minimum, in every phase; before start_time the admin may set any price  *)
(* at or above the minimum, also a higher one; on success the stored price *)
(* is the requested amount in the unchanged denomination and nothing else  *)
(* of the storage changes.                                                 *)
C19_UpdatePriceBounds ==
    \A info \in Infos, price \in Amounts :
        LET r == run(info, [tag |-> "UpdateMintPrice", price |-> price])
            after == committed(storage, r)
        IN
        /\ (now >= storage.CONFIG.end_time \/ price < params.min_mint_price) =>
              /\ ~is_ok(r)
              /\ after.CONFIG.mint_price = storage.CONFIG.mint_price
        /\ ( /\ now < storage.CONFIG.start_time
             /\ now < storage.CONFIG.end_time
             /\ info = MessageInfo(storage.CONFIG.admin, <<>>)
             /\ price >= params.min_mint_price ) => is_ok(r)
        /\ is_ok(r) =>
              /\ after.CONFIG.mint_price.amount = price
              /\ after.CONFIG.mint_price.denom = storage.CONFIG.mint_price.denom
              /\ after = [storage EXCEPT !.CONFIG.mint_price.amount = price]

(* C19 witness: before start_time the price has been lowered to 15; the    *)
(* admin's request to raise it back to 1000 succeeds and the one for 0,    *)
(* below the minimum of 15, is refused.                                    *)
C19_Witness ==
    /\ now < storage.CONFIG.start_time
    /\ storage.CONFIG.mint_price.amount = 15
    /\ params.min_mint_price = 15
    /\ is_ok(run(MessageInfo(ADMIN, <<>>), [tag |-> "UpdateMintPrice", price |-> 1000]))
    /\ run(MessageInfo(ADMIN, <<>>),
           [tag |-> "UpdateMintPrice", price |-> 0]).err.kind = "InsufficientMintPrice"

(* C20: start_time <= end_time in every reachable state: instantiate is    *)
(* given start_time <= end_time, and every UpdateStartTime and             *)
(* UpdateEndTime that succeeds commits times in that order.                *)
C20_StartNotAfterEnd ==
    /\ storage.CONFIG.start_time <= storage.CONFIG.end_time
    /\ \A info \in Infos, time \in 0..MaxTime,
          tag \in {"UpdateStartTime", "UpdateEndTime"} :
          LET after == committed(storage, run(info, [tag |-> tag, time |-> time])) IN
          after.CONFIG.start_time <= after.CONFIG.end_time

(* C20 witness: both times have been moved and now coincide, and a request *)
(* to move start_time past end_time is refused.                            *)
C20_Witness ==
    /\ storage.CONFIG.start_time = MaxTime
    /\ storage.CONFIG.end_time = MaxTime
    /\ now < MaxTime - 1
    /\ run(MessageInfo(ADMIN, <<>>),
           [tag |-> "UpdateEndTime", time |-> MaxTime - 1]).err.kind = "InvalidEndTime"

(* C21: an UpdateStartTime fails if now >= the stored start_time or        *)
(* now > the new start_time, an UpdateEndTime fails if now >= the stored   *)
(* end_time or now > the new end_time; a failure leaves both times as they *)
(* were; a success changes the requested time only, to the requested       *)
(* value, which is >= now.                                                 *)
C21_WindowUpdates ==
    \A info \in Infos, time \in 0..MaxTime :
        LET rs == run(info, [tag |-> "UpdateStartTime", time |-> time])
            re == run(info, [tag |-> "UpdateEndTime", time |-> time])
            as == committed(storage, rs)
            ae == committed(storage, re)
        IN
        /\ (now >= storage.CONFIG.start_time \/ now > time) => ~is_ok(rs)
        /\ (now >= storage.CONFIG.end_time \/ now > time) => ~is_ok(re)
        /\ ~is_ok(rs) => as = storage
        /\ ~is_ok(re) => ae = storage
        /\ is_ok(rs) =>
              /\ as = [storage EXCEPT !.CONFIG.start_time = time]
              /\ as.CONFIG.end_time = storage.CONFIG.end_time
              /\ as.CONFIG.start_time >= now
        /\ is_ok(re) =>
              /\ ae = [storage EXCEPT !.CONFIG.end_time = time]
              /\ ae.CONFIG.start_time = storage.CONFIG.start_time
              /\ ae.CONFIG.end_time >= now

(* C21 witness: both times have been moved (to 2 and 3), the clock stands  *)
(* at 1, and the admin's requests for a start_time and an end_time of 0    *)
(* are refused while one for an end_time of 2 succeeds.                    *)
C21_Witness ==
    /\ now = 1
    /\ storage.CONFIG.start_time = 2
    /\ storage.CONFIG.end_time = 3
    /\ run(MessageInfo(ADMIN, <<>>),
           [tag |-> "UpdateStartTime", time |-> 0]).err.kind = "InvalidStartTime"
    /\ run(MessageInfo(ADMIN, <<>>),
           [tag |-> "UpdateEndTime", time |-> 0]).err.kind = "InvalidEndTime"
    /\ is_ok(run(MessageInfo(ADMIN, <<>>), [tag |-> "UpdateEndTime", time |-> 2]))

(* C22, as stated: once SG721_ADDRESS has been set by a reply no request   *)
(* changes it: not an execute request, not a sudo, and not a further reply *)
(* with the matching id that reports another contract address.             *)
C22_AsStated ==
    bound =>
        /\ \A info \in Infos, msg \in PurchaseMsgs \cup OtherMsgs :
              committed(storage, run(info, msg)).SG721_ADDRESS = storage.SG721_ADDRESS
        /\ \A msg \in SudoMsgs :
              committed(storage, sudo(storage, msg)).SG721_ADDRESS = storage.SG721_ADDRESS
        /\ \A msg \in ReplyMsgs :
              committed(storage, reply(storage, msg)).SG721_ADDRESS = storage.SG721_ADDRESS

(* C23: a reply that is refused leaves SG721_ADDRESS, and the rest of the  *)
(* storage, as it was: an id other than INSTANTIATE_SG721_REPLY_ID fails   *)
(* with InvalidReplyID, the matching id with a result that cannot be       *)
(* parsed fails with InstantiateSg721Error, and after either an unbound    *)
(* address is still unbound.                                               *)
C23_RejectedReply ==
    \A msg \in ReplyMsgs :
        LET r == reply(storage, msg)
            after == committed(storage, r)
        IN
        /\ msg.id # INSTANTIATE_SG721_REPLY_ID => r.err.kind = "InvalidReplyID"
        /\ (msg.id = INSTANTIATE_SG721_REPLY_ID /\ ~is_some(msg.data)) =>
              r.err.kind = "InstantiateSg721Error"
        /\ ~is_ok(r) =>
              /\ after.SG721_ADDRESS = storage.SG721_ADDRESS
              /\ after = storage
              /\ ~bound => ~is_some(after.SG721_ADDRESS)

(* C23 witness: the window has opened with the address still unbound; a    *)
(* reply with another id and one with an unparsable result are refused.    *)
C23_Witness ==
    /\ ~bound
    /\ in_window
    /\ reply(storage, [id |-> INSTANTIATE_SG721_REPLY_ID + 1,
                       data |-> Some(SG_A)]).err.kind = "InvalidReplyID"
    /\ reply(storage, [id |-> INSTANTIATE_SG721_REPLY_ID,
                       data |-> None]).err.kind = "InstantiateSg721Error"

(* C24: while SG721_ADDRESS is absent, at any time and after any other     *)
(* requests, every Mint, MintTo and ReceiveNft fails, commits no change    *)
(* and emits nothing, and no item has been issued; every mint message a    *)
(* purchase emits is addressed to the contract SG721_ADDRESS holds.        *)
C24_NoMintBeforeBinding ==
    /\ ~bound => issued = <<>>
    /\ \A info \in Infos, msg \in PurchaseMsgs :
          LET r == run(info, msg) IN
          /\ ~bound =>
                /\ ~is_ok(r)
                /\ committed(storage, r) = storage
                /\ emitted(r) = <<>>
          /\ \A i \in 1..Len(emitted(r)) :
                emitted(r)[i].kind = "mint" =>
                    /\ bound
                    /\ emitted(r)[i].contract = unwrap(storage.SG721_ADDRESS)

(* C24 witness: the window has opened, the limit has been raised, and the  *)
(* address is still absent: an otherwise eligible self-mint with the exact *)
(* payment and a mint-to by the admin both fail on loading the address.    *)
C24_Witness ==
    /\ ~bound
    /\ in_window
    /\ storage.CONFIG.per_address_limit = 2
    /\ \E funds \in FundsSet :
          /\ exact_payment(MessageInfo(ALICE, funds), [tag |-> "Mint"])
          /\ run(MessageInfo(ALICE, funds), [tag |-> "Mint"]).err.kind = "Std"
    /\ \E funds \in FundsSet :
          run(MessageInfo(ADMIN, funds),
              [tag |-> "MintTo", recipient |-> ALICE]).err.kind = "Std"

(* C25: an instantiate followed by a reply with the matching id and a      *)
(* well-formed result sets SG721_ADDRESS to exactly the contract address   *)
(* the reply reports, and a config query made right after returns that     *)
(* address; before the reply the config query fails.                       *)
C25_BindingRoundTrip ==
    /\ \A create \in InstantiateMsgs, addr \in {SG_A, SG_B} :
          LET c == instantiate(params, MessageInfo(FACTORY, <<>>), create)
              r == reply(c.storage, [id |-> INSTANTIATE_SG721_REPLY_ID,
                                     data |-> Some(addr)])
              after == committed(c.storage, r)
          IN
          is_ok(c) =>
              /\ query_config(c.storage).err # "Ok"
              /\ is_ok(r)
              /\ after.SG721_ADDRESS = Some(addr)
              /\ query_config(after).err = "Ok"
              /\ query_config(after).sg721_address = addr
    /\ \A addr \in {SG_A, SG_B} :
          LET r == reply(storage, [id |-> INSTANTIATE_SG721_REPLY_ID,
                                   data |-> Some(addr)])
              after == committed(storage, r)
          IN
          ~bound =>
              /\ is_ok(r)
              /\ after.SG721_ADDRESS = Some(addr)
              /\ query_config(after).sg721_address = addr

(* C25 witness: right after instantiate (no time has passed, nothing has   *)
(* been minted) the reply has bound sg721_b and the config query returns   *)
(* it.                                                                     *)
C25_Witness ==
    /\ now = 0
    /\ issued = <<>>
    /\ outbox = <<>>
    /\ storage.SG721_ADDRESS = Some(SG_B)
    /\ query_config(storage).err = "Ok"
    /\ query_config(storage).sg721_address = SG_B

(* C26, as stated: after a sudo UpdateStatus that returns Ok, STATUS holds *)
(* exactly the three flags supplied and a status query returns them,       *)
(* whatever the flags were before.                                         *)
C26_AsStated ==
    \A msg \in SudoMsgs :
        LET r == sudo(storage, msg)
            after == committed(storage, r)
        IN
        is_ok(r) =>
            /\ after.STATUS = [is_verified |-> msg.is_verified,
                               is_blocked |-> msg.is_blocked,
                               is_explicit |-> msg.is_explicit]
            /\ query_status(after).status = after.STATUS

(* C27, as stated: a ReceiveNft whose sender is not one of                 *)
(* allowed_burn_collections fails, and TOTAL_MINT_COUNT, the token index   *)
(* and every MINTER_ADDRS entry are as before.                             *)
C27_AsStated ==
    \A info \in Infos :
        LET r == run(info, [tag |-> "ReceiveNft",
                            msg |-> [sender |-> ALICE, token_id |-> "7"]])
            after == committed(storage, r)
        IN
        ~allow_listed(info) =>
            /\ ~is_ok(r)
            /\ after.TOTAL_MINT_COUNT = storage.TOTAL_MINT_COUNT
            /\ after.TOKEN_INDEX = storage.TOKEN_INDEX
            /\ after.MINTER_ADDRS = storage.MINTER_ADDRS

(* C28: a ReceiveNft from an allow-listed collection needs no payment: it  *)
(* succeeds exactly when a self-mint's checks pass (inside the window,     *)
(* sender under the limit, address bound), whatever funds are attached;    *)
(* its network fee and seller amount are 0, it emits no transfer, and it   *)
(* raises the token index, the total and the sender's count by 1 like a    *)
(* self-mint.                                                              *)
C28_ExchangeMint ==
    \A info \in Infos :
        LET msg == [tag |-> "ReceiveNft", msg |-> [sender |-> ALICE, token_id |-> "7"]]
            r == run(info, msg)
            after == committed(storage, r)
        IN
        allow_listed(info) =>
            /\ is_ok(r) <=> (in_window /\ under_cap(info) /\ bound)
            /\ now < storage.CONFIG.start_time => r.err.kind = "BeforeMintStartTime"
            /\ now >= storage.CONFIG.end_time => r.err.kind = "AfterMintEndTime"
            /\ (in_window /\ ~under_cap(info)) =>
                  r.err.kind = "MaxPerAddressLimitExceeded"
            /\ is_ok(r) =>
                  /\ r.attrs.network_fee = 0
                  /\ r.attrs.seller_amount = 0
                  /\ sends(r.msgs) = <<>>
                  /\ minted_ids(r.msgs) = <<storage.TOKEN_INDEX>>
                  /\ after.TOKEN_INDEX = storage.TOKEN_INDEX + 1
                  /\ after.TOTAL_MINT_COUNT = storage.TOTAL_MINT_COUNT + 1
                  /\ mint_count_per_addr(after, info) =
                        mint_count_per_addr(storage, info) + 1

(* C28 witness: the last successful request was an exchange mint by the    *)
(* allow-listed collection: an item was created, the received item is      *)
(* burned, nothing was transferred, and the collection's count is 1.       *)
C28_Witness ==
    /\ Len(minted_ids(outbox)) = 1
    /\ \E i \in 1..Len(outbox) : outbox[i].kind = "burn" /\ outbox[i].contract = COLL
    /\ sends(outbox) = <<>>
    /\ mint_count_per_addr(storage, MessageInfo(COLL, <<>>)) = 1
    /\ storage.TOTAL_MINT_COUNT = 1

(* C29, as stated: whenever a purchase (self-mint, mint-to or exchange     *)
(* mint) writes a MINTER_ADDRS entry, the value written is not above the   *)
(* per_address_limit of CONFIG at that moment.                             *)
C29_AsStated ==
    \A info \in Infos, msg \in PurchaseMsgs :
        LET r == run(info, msg)
            after == committed(storage, r)
        IN
        is_ok(r) =>
            \A a \in DOMAIN after.MINTER_ADDRS :
                (a \notin DOMAIN storage.MINTER_ADDRS
                    \/ after.MINTER_ADDRS[a] # storage.MINTER_ADDRS[a]) =>
                    after.MINTER_ADDRS[a] <= storage.CONFIG.per_address_limit

(* C29: whenever a self-mint or an exchange mint writes a MINTER_ADDRS     *)
(* entry, the value written is not above the per_address_limit of CONFIG   *)
(* at that moment, whatever mints and limit updates came before; a mint-to *)
(* writes the admin's entry without looking at the limit.                  *)
C29_WrittenCountWithinLimit ==
    \A info \in Infos, msg \in PurchaseMsgs :
        LET r == run(info, msg)
            after == committed(storage, r)
        IN
        is_ok(r) =>
            \A a \in DOMAIN after.MINTER_ADDRS :
                (a \notin DOMAIN storage.MINTER_ADDRS
                    \/ after.MINTER_ADDRS[a] # storage.MINTER_ADDRS[a]) =>
                    /\ a = info.sender
                    /\ after.MINTER_ADDRS[a] = mint_count_per_addr(storage, info) + 1
                    /\ msg.tag # "MintTo" =>
                          after.MINTER_ADDRS[a] <= storage.CONFIG.per_address_limit

(* C29 witness: the limit has been raised to 2, ALICE has minted once, and *)
(* her second self-mint succeeds, writing a count of 2.                    *)
C29_Witness ==
    /\ storage.CONFIG.per_address_limit = 2
    /\ mint_count_per_addr(storage, MessageInfo(ALICE, <<>>)) = 1
    /\ \E funds \in FundsSet :
          LET r == run(MessageInfo(ALICE, funds), [tag |-> "Mint"]) IN
          /\ is_ok(r)
          /\ r.storage.MINTER_ADDRS[ALICE] = 2

(* C30: an UpdatePerAddressLimit by the admin with no funds attached       *)
(* succeeds exactly when the new limit is at least 1 and at most the       *)
(* factory's current max_per_address_limit, at any time; 0 or a value      *)
(* above the maximum fails with InvalidPerAddressLimit and leaves the      *)
(* limit as it was; a success changes per_address_limit and nothing else.  *)
C30_UpdatePerAddressLimit ==
    \A per_address_limit \in 0..(MaxMints + 1) :
        LET r == run(MessageInfo(storage.CONFIG.admin, <<>>),
                     [tag |-> "UpdatePerAddressLimit",
                      per_address_limit |-> per_address_limit])
            after == committed(storage, r)
            valid == 1 <= per_address_limit
                     /\ per_address_limit <= params.max_per_address_limit
        IN
        /\ is_ok(r) <=> valid
        /\ ~valid =>
              /\ r.err.kind = "InvalidPerAddressLimit"
              /\ after.CONFIG.per_address_limit = storage.CONFIG.per_address_limit
              /\ after = storage
        /\ valid =>
              /\ after.CONFIG = [storage.CONFIG EXCEPT !.per_address_limit = per_address_limit]
              /\ after = [storage EXCEPT !.CONFIG.per_address_limit = per_address_limit]

(* C30 witness: the sale has ended, the limit stands at 2 after an update, *)
(* the factory's maximum is now 1: the admin's request for 2 and the one   *)
(* for 0 are refused and the one for 1 succeeds.                           *)
C30_Witness ==
    /\ now >= storage.CONFIG.end_time
    /\ storage.CONFIG.per_address_limit = 2
    /\ params.max_per_address_limit = 1
    /\ run(MessageInfo(ADMIN, <<>>),
           [tag |-> "UpdatePerAddressLimit", per_address_limit |-> 2]).err.kind
          = "InvalidPerAddressLimit"
    /\ run(MessageInfo(ADMIN, <<>>),
           [tag |-> "UpdatePerAddressLimit", per_address_limit |-> 0]).err.kind
          = "InvalidPerAddressLimit"
    /\ is_ok(run(MessageInfo(ADMIN, <<>>),
                 [tag |-> "UpdatePerAddressLimit", per_address_limit |-> 1]))

(* C31: a trading start time accepted at creation or by                    *)
(* UpdateStartTradingTime is not later than start_time plus the factory's  *)
(* current max_trading_offset_secs; a later one fails with                 *)
(* InvalidStartTradingTime; at creation an omitted one becomes exactly     *)
(* start_time + offset; a successful UpdateStartTradingTime emits one      *)
(* update message to the bound collection and leaves storage as it was.    *)
C31_TradingTimeCeiling ==
    /\ \A msg \in InstantiateMsgs, asked \in {None} \cup {Some(t) : t \in 0..(MaxTime + 1)} :
          LET m == [msg EXCEPT !.collection_params.info.start_trading_time = asked]
              r == instantiate(params, MessageInfo(FACTORY, <<>>), m)
              ceiling == m.init_msg.start_time + params.max_trading_offset_secs
          IN
          /\ (is_some(asked) /\ unwrap(asked) > ceiling) => ~is_ok(r)
          /\ (is_some(asked) /\ unwrap(asked) > ceiling
                /\ r.err.kind # "InvalidBaseTokenURI") =>
                r.err.kind = "InvalidStartTradingTime"
          /\ is_ok(r) =>
                /\ Len(r.msgs) = 1
                /\ r.msgs[1].kind = "instantiate"
                /\ is_some(r.msgs[1].start_trading_time)
                /\ unwrap(r.msgs[1].start_trading_time) <= ceiling
                /\ is_some(asked) => r.msgs[1].start_trading_time = asked
                /\ ~is_some(asked) => unwrap(r.msgs[1].start_trading_time) = ceiling
    /\ \A info \in Infos, time \in {None} \cup {Some(t) : t \in 0..(MaxTime + 1)} :
          LET r == run(info, [tag |-> "UpdateStartTradingTime", time |-> time])
              ceiling == storage.CONFIG.start_time + params.max_trading_offset_secs
              late == is_some(time) /\ unwrap(time) > ceiling
          IN
          /\ late => ~is_ok(r)
          /\ (late /\ info = MessageInfo(storage.CONFIG.admin, <<>>) /\ bound) =>
                r.err.kind = "InvalidStartTradingTime"
          /\ is_ok(r) =>
                /\ committed(storage, r) = storage
                /\ r.msgs = <<[kind |-> "update_start_trading_time",
                               contract |-> unwrap(storage.SG721_ADDRESS),
                               start_trading_time |-> time]>>

(* C31 witness: the collection is bound, the last request was an accepted  *)
(* UpdateStartTradingTime for time 1, and the admin's request for MaxTime  *)
(* would now be refused as later than start_time + offset.                 *)
C31_Witness ==
    /\ bound
    /\ outbox = <<[kind |-> "update_start_trading_time",
                   contract |-> unwrap(storage.SG721_ADDRESS),
                   start_trading_time |-> Some(1)]>>
    /\ MaxTime > storage.CONFIG.start_time + params.max_trading_offset_secs
    /\ now <= 1
    /\ run(MessageInfo(ADMIN, <<>>),
           [tag |-> "UpdateStartTradingTime", time |-> Some(MaxTime)]).err.kind
          = "InvalidStartTradingTime"

(* C32: every mint, UpdateMintPrice, UpdateStartTradingTime and            *)
(* UpdatePerAddressLimit request is judged by the parameters the factory   *)
(* holds at the time of the request (fee rates, airdrop price, minimum     *)
(* price, trading offset, maximum per-address limit), whatever they were   *)
(* at creation or at an earlier request.                                   *)
C32_ParamsNotCached ==
    LET admin == MessageInfo(storage.CONFIG.admin, <<>>) IN
    /\ \A info \in Infos, recipient \in Recipients :
          LET msg == [tag |-> "MintTo", recipient |-> recipient]
              r == run(info, msg)
          IN
          /\ is_ok(r) =>
                /\ attached(info).amount = params.airdrop_mint_price
                /\ r.attrs.mint_price = params.airdrop_mint_price
                /\ r.attrs.network_fee =
                      (params.airdrop_mint_price * params.airdrop_mint_fee_bps) \div 10000
                /\ r.attrs.network_fee > 0 =>
                      sends_to(r.msgs, params.dev_fee_address)
                         = <<send(params.dev_fee_address, r.attrs.network_fee,
                                  storage.CONFIG.mint_price.denom)>>
          /\ (reaches_payment(info, msg) /\ attached(info).err = "Ok"
                /\ attached(info).amount # params.airdrop_mint_price) =>
                r.err = IncorrectPaymentAmount(attached(info).amount,
                                               params.airdrop_mint_price)
    /\ \A info \in Infos :
          \A msg \in PurchaseMsgs :
              LET r == run(info, msg) IN
              (msg.tag # "MintTo" /\ ~allow_listed(info) /\ is_ok(r)) =>
                  /\ r.attrs.network_fee =
                        (storage.CONFIG.mint_price.amount * params.mint_fee_bps) \div 10000
                  /\ r.attrs.network_fee > 0 =>
                        sends_to(r.msgs, params.dev_fee_address)
                           = <<send(params.dev_fee_address, r.attrs.network_fee,
                                    storage.CONFIG.mint_price.denom)>>
    /\ \A price \in Amounts :
          LET r == run(admin, [tag |-> "UpdateMintPrice", price |-> price]) IN
          /\ is_ok(r) => price >= params.min_mint_price
          /\ (now < storage.CONFIG.start_time /\ now < storage.CONFIG.end_time) =>
                (is_ok(r) <=> price >= params.min_mint_price)
    /\ \A t \in 0..(MaxTime + 1) :
          LET r == run(admin, [tag |-> "UpdateStartTradingTime", time |-> Some(t)]) IN
          bound =>
              (is_ok(r) <=>
                  /\ now <= t
                  /\ t <= storage.CONFIG.start_time + params.max_trading_offset_secs)
    /\ \A n \in 0..(MaxMints + 1) :
          LET r == run(admin, [tag |-> "UpdatePerAddressLimit", per_address_limit |-> n]) IN
          is_ok(r) <=> (1 <= n /\ n <= params.max_per_address_limit)

(* C32 witness: a per_address_limit of 2 was accepted under the factory's  *)
(* earlier maximum; the factory now holds other parameters, and the next   *)
(* requests go by them: a limit of 2 is refused, an administrative mint    *)
(* needs the new airdrop price, and a price of 0 is accepted.              *)
C32_Witness ==
    /\ storage.CONFIG.per_address_limit = 2
    /\ params = ParamsB
    /\ bound
    /\ now < storage.CONFIG.start_time
    /\ ~is_ok(run(MessageInfo(ADMIN, <<>>),
                  [tag |-> "UpdatePerAddressLimit", per_address_limit |-> 2]))
    /\ run(MessageInfo(ADMIN, <<coin(ParamsA.airdrop_mint_price, NATIVE_DENOM)>>),
           [tag |-> "MintTo", recipient |-> ALICE]).err
          = IncorrectPaymentAmount(ParamsA.airdrop_mint_price, ParamsB.airdrop_mint_price)
    /\ is_ok(run(MessageInfo(ADMIN, <<>>), [tag |-> "UpdateMintPrice", price |-> 0]))
    /\ ~is_ok(run(MessageInfo(ADMIN, <<>>),
                  [tag |-> "UpdateStartTradingTime",
                   time |-> Some(storage.CONFIG.start_time + ParamsA.max_trading_offset_secs)]))

(* C33: no request (execute, reply or sudo) changes the factory, the       *)
(* collection code id, the admin, the payment address, nft_data, the       *)
(* allowed burn collections or the denomination of mint_price in CONFIG;   *)
(* the mint_price amount, start_time, end_time and per_address_limit are   *)
(* the only CONFIG fields that change, each only by its own update         *)
(* request.                                                                *)
C33_ConfigFrame ==
    LET frame(after, tags) ==
            /\ after.CONFIG.factory = storage.CONFIG.factory
            /\ after.CONFIG.collection_code_id = storage.CONFIG.collection_code_id
            /\ after.CONFIG.admin = storage.CONFIG.admin
            /\ after.CONFIG.payment_address = storage.CONFIG.payment_address
            /\ after.CONFIG.nft_data = storage.CONFIG.nft_data
            /\ after.CONFIG.allowed_burn_collections
                  = storage.CONFIG.allowed_burn_collections
            /\ after.CONFIG.mint_price.denom = storage.CONFIG.mint_price.denom
            /\ DOMAIN after.CONFIG = DOMAIN storage.CONFIG
            /\ after.CONFIG.mint_price.amount # storage.CONFIG.mint_price.amount =>
                  tags = {"UpdateMintPrice"}
            /\ after.CONFIG.start_time # storage.CONFIG.start_time =>
                  tags = {"UpdateStartTime"}
            /\ after.CONFIG.end_time # storage.CONFIG.end_time =>
                  tags = {"UpdateEndTime"}
            /\ after.CONFIG.per_address_limit # storage.CONFIG.per_address_limit =>
                  tags = {"UpdatePerAddressLimit"}
    IN
    /\ \A info \in Infos, msg \in PurchaseMsgs \cup OtherMsgs :
          frame(committed(storage, run(info, msg)), {msg.tag})
    /\ \A msg \in ReplyMsgs : frame(committed(storage, reply(storage, msg)), {})
    /\ \A msg \in SudoMsgs : frame(committed(storage, sudo(storage, msg)), {})

(* C33 witness: the price, both window bounds and the per-address limit    *)
(* have all been updated since creation, the collection is bound, and the  *)
(* other CONFIG fields are those given at creation.                        *)
C33_Witness ==
    /\ bound
    /\ storage.CONFIG.mint_price.amount # 1000
    /\ storage.CONFIG.start_time # 1
    /\ storage.CONFIG.end_time # 2
    /\ storage.CONFIG.per_address_limit # 1
    /\ storage.CONFIG.factory = FACTORY
    /\ storage.CONFIG.admin = ADMIN
    /\ storage.CONFIG.collection_code_id = 1
    /\ storage.CONFIG.mint_price.denom = NATIVE_DENOM
    /\ storage.CONFIG.allowed_burn_collections = Some({COLL})
    /\ storage.CONFIG.payment_address = Some(PAY)

(* The sum of all MINTER_ADDRS entries *)
RECURSIVE sum_of_mint_counts(_)
sum_of_mint_counts(minter_addrs) ==
    IF DOMAIN minter_addrs = {} THEN 0
    ELSE LET a == CHOOSE a \in DOMAIN minter_addrs : TRUE IN
         minter_addrs[a]
            + sum_of_mint_counts([b \in DOMAIN minter_addrs \ {a} |-> minter_addrs[b]])

(* C34: at creation TOTAL_MINT_COUNT and the sum of the MINTER_ADDRS       *)
(* entries are equal; every step other than a successful purge changes    *)
(* both by the same amount, so they stay equal until the first purge; a    *)
(* successful purge brings the sum to 0 and keeps TOTAL_MINT_COUNT; once   *)
(* purging is possible the sale stays ended and TOTAL_MINT_COUNT no longer *)
(* changes, so the sum stays 0.                                            *)
C34_TotalIsSumUntilPurge ==
    /\ storage.TOTAL_MINT_COUNT = sum_of_mint_counts(storage.MINTER_ADDRS)
    /\ [][ LET purge_step ==
                   \E info \in Infos :
                       LET r == run(info, [tag |-> "Purge"]) IN
                       /\ is_ok(r)
                       /\ storage' = r.storage
                       /\ outbox' = r.msgs
                       /\ UNCHANGED <<params, now, issued>>
           IN
           /\ IF purge_step
              THEN /\ sum_of_mint_counts(storage'.MINTER_ADDRS) = 0
                   /\ storage'.TOTAL_MINT_COUNT = storage.TOTAL_MINT_COUNT
              ELSE storage'.TOTAL_MINT_COUNT - sum_of_mint_counts(storage'.MINTER_ADDRS)
                      = storage.TOTAL_MINT_COUNT - sum_of_mint_counts(storage.MINTER_ADDRS)
           /\ now > storage.CONFIG.end_time =>
                 /\ now' > storage'.CONFIG.end_time
                 /\ storage'.TOTAL_MINT_COUNT = storage.TOTAL_MINT_COUNT
         ]_vars

(* C34 witness: two addresses have minted, the sale has ended and a purge  *)
(* has emptied MINTER_ADDRS: the sum is 0 and TOTAL_MINT_COUNT is still 2. *)
C34_Witness ==
    /\ now > storage.CONFIG.end_time
    /\ storage.MINTER_ADDRS = <<>>
    /\ storage.TOTAL_MINT_COUNT = 2
    /\ Len(issued) = 2

(* C35, as stated: a plain Mint request with no funds, sent inside the     *)
(* window by an address in allowed_burn_collections, succeeds, emits no    *)
(* bank transfer and mints a token to that address.                        *)
C35_AsStated ==
    \A info \in Infos :
        LET r == run(info, [tag |-> "Mint"]) IN
        (allow_listed(info) /\ info.funds = <<>> /\ in_window) =>
            /\ is_ok(r)
            /\ sends(r.msgs) = <<>>
            /\ Len(minted_ids(r.msgs)) = 1
            /\ r.attrs.recipient = info.sender

(* C35: a plain Mint request with no funds, sent inside the window by an   *)
(* address in allowed_burn_collections whose mint count is below           *)
(* per_address_limit, with the collection bound, succeeds at any price,    *)
(* emits only the mint message, addressed to that address, and no bank     *)
(* transfer; the same request from an address that is not on the list      *)
(* fails with IncorrectPaymentAmount when the price is above 0.            *)
C35_FreePathBySenderAlone ==
    \A info \in Infos :
        LET r == run(info, [tag |-> "Mint"]) IN
        (info.funds = <<>> /\ in_window /\ bound /\ under_cap(info)) =>
            /\ allow_listed(info) =>
                  /\ is_ok(r)
                  /\ sends(r.msgs) = <<>>
                  /\ r.msgs = <<mint_nft_msg(unwrap(storage.SG721_ADDRESS),
                                             storage.TOKEN_INDEX, info.sender)>>
                  /\ r.attrs.recipient = info.sender
                  /\ r.attrs.network_fee = 0
                  /\ r.attrs.seller_amount = 0
            /\ (~allow_listed(info) /\ storage.CONFIG.mint_price.amount > 0) =>
                  r.err = IncorrectPaymentAmount(0, storage.CONFIG.mint_price.amount)

(* C35 witness: the price is above 0 and the last request was a plain Mint *)
(* from the allowed burn collection's address: it left one mint message to *)
(* that address, no burn message and no bank transfer.                     *)
C35_Witness ==
    /\ storage.CONFIG.mint_price.amount > 0
    /\ Len(outbox) = 1
    /\ outbox[1].kind = "mint"
    /\ outbox[1].owner = COLL
    /\ mint_count_per_addr(storage, MessageInfo(COLL, <<>>)) = 1
    /\ storage.TOTAL_MINT_COUNT = 1

(* The owners a token received through a collection can come from *)
Owners == {ALICE, ADMIN}

(* C36: in a ReceiveNft from an allowed burn collection the limit check,   *)
(* the count that is raised and the recipient of the minted token are      *)
(* those of the calling collection, not of the owner named in the message: *)
(* once the collection's count has reached per_address_limit, every        *)
(* further ReceiveNft from it inside the window fails with                 *)
(* MaxPerAddressLimitExceeded whichever owner is named; the outcome does   *)
(* not depend on the owner or on the owner's count; a success raises the   *)
(* collection's entry by 1, mints to the collection and leaves every other *)
(* entry, the owner's included, as it was.                                 *)
C36_ExchangeKeyedOnCollection ==
    \A info \in Infos, owner \in Owners :
        LET r == run(info, [tag |-> "ReceiveNft",
                            msg |-> [sender |-> owner, token_id |-> "7"]])
            after == committed(storage, r)
        IN
        allow_listed(info) =>
            /\ (in_window /\ ~under_cap(info)) =>
                  /\ r.err.kind = "MaxPerAddressLimitExceeded"
                  /\ after = storage
            /\ (in_window /\ bound /\ under_cap(info)) => is_ok(r)
            /\ is_ok(r) =>
                  /\ after.MINTER_ADDRS[info.sender]
                        = mint_count_per_addr(storage, info) + 1
                  /\ after.MINTER_ADDRS[info.sender] <= storage.CONFIG.per_address_limit
                  /\ \A a \in Senders \ {info.sender} :
                        mint_count_per_addr(after, MessageInfo(a, <<>>))
                           = mint_count_per_addr(storage, MessageInfo(a, <<>>))
                  /\ DOMAIN after.MINTER_ADDRS
                        = DOMAIN storage.MINTER_ADDRS \cup {info.sender}
                  /\ r.attrs.recipient = info.sender
                  /\ \E i \in 1..Len(r.msgs) :
                        r.msgs[i] = mint_nft_msg(unwrap(storage.SG721_ADDRESS),
                                                 storage.TOKEN_INDEX, info.sender)

(* C36 witness: inside the window the collection's count has reached       *)
(* per_address_limit through an exchange mint, ALICE, who supplied the     *)
(* token, has no entry, and a further ReceiveNft from the collection fails *)
(* with MaxPerAddressLimitExceeded for either owner.                       *)
C36_Witness ==
    /\ in_window
    /\ bound
    /\ mint_count_per_addr(storage, MessageInfo(COLL, <<>>))
          = storage.CONFIG.per_address_limit
    /\ ALICE \notin DOMAIN storage.MINTER_ADDRS
    /\ \E i \in 1..Len(outbox) : outbox[i].kind = "burn" /\ outbox[i].contract = COLL
    /\ \A owner \in Owners :
          run(MessageInfo(COLL, <<>>),
              [tag |-> "ReceiveNft",
               msg |-> [sender |-> owner, token_id |-> "7"]]).err.kind
             = "MaxPerAddressLimitExceeded"

===========================================================================
